---- MODULE Spec2Model ----
(***************************************************************************)
(* Prompt provenance store of simple-ai-provenance: the SQLite tables      *)
(* sessions / prompts / prompt_repos, the hook processes that write them   *)
(* (UserPromptSubmit hook, PostToolUse hook, git post-commit hook) and the *)
(* readers that format them (prepare-commit-msg hook, MCP tools).          *)
(*                                                                         *)
(* Every hook is its own short-lived OS process.  A write transaction of   *)
(* SQLite (first DML statement .. conn.commit()) is isolated and           *)
(* serialised by the store, so it is one step of the model; the statements *)
(* a process runs outside one transaction (its clock read, its SELECTs)    *)
(* are separate steps and interleave with the other processes.             *)
(*                                                                         *)
(* Timestamps are datetime.now(timezone.utc).isoformat() strings, all in   *)
(* the same zone; SQLite compares them as text, which orders them by       *)
(* instant, so a timestamp is modelled by the clock reading it renders.    *)
(***************************************************************************)
EXTENDS Naturals, Integers, Sequences, FiniteSets, TLC

\* ----------------------------------------------------------------- bounds
MaxPrompts == 3      \* record-prompt hook invocations explored
MaxCommits == 2      \* git commits created
MaxBlock == 6        \* prompts in the store when the formatter is explored
MaxThreshold == 6    \* greatest verbose_threshold configured
MaxRollup == 3       \* prompts in the store when the PR rollup is explored
MaxFiles == 22       \* changed files git lists

\* ----------------------------------------------------------------- values
NULL == "NULL"                       \* SQL NULL / Python None

Procs      == {1, 2}                 \* concurrent instances of one hook
SessionIds == {"S1", "S2"}
Repos      == {"/r", "/x"}

Texts      == {"fix the bug"}

\* What _get_repo_info(cwd) may answer for the working directories explored:
\* the repository root and branch `git rev-parse` prints.  The empty answer
\* is the one the session upsert guards against.
RepoInfos ==
    { [cwd |-> "/r",     repo |-> "/r", branch |-> "main"],
      [cwd |-> "/x/sub", repo |-> "/x", branch |-> "dev"],
      [cwd |-> "/bare",  repo |-> "",   branch |-> ""] }

\* hash of the n-th commit git creates (git rev-parse HEAD right after it)
HashOf(n) == IF n = 1 THEN "h1" ELSE IF n = 2 THEN "h2" ELSE IF n = 3 THEN "h3" ELSE "h4"

VARIABLES
    clock,         \* the latest reading of datetime.now(timezone.utc) by any hook
    schema,        \* "none": no DB file; "hook": sessions+prompts; "full": + prompt_repos
    locked,        \* TRUE while a process outside the model holds the write lock
    sessions,      \* table sessions      (set of rows)
    prompts,       \* table prompts       (set of rows)
    prompt_repos,  \* table prompt_repos  (set of rows)
    nextId,        \* source of fresh prompt ids (uuid.uuid4())
    commits,       \* number of commits git has created so far
    rp,            \* UserPromptSubmit hook processes
    pt,            \* PostToolUse hook processes
    git,           \* the current, else the last, run of `git commit`
    tool,          \* the MCP server's current tool call
    batches,       \* history: the batch of every mark_committed call
    config         \* "settings" of the config file (<<>>: no file, no setting)

store == <<schema, sessions, prompts, prompt_repos>>
vars  == <<clock, schema, locked, sessions, prompts, prompt_repos, nextId,
           commits, rp, pt, git, tool, batches, config>>

\* ------------------------------------------------------------ SQL helpers
Ids(rows) == {r.prompt_id : r \in rows}

\* all orders of the finite set R
Perms(R) == {s \in [1..Cardinality(R) -> R] : \A i, j \in 1..Cardinality(R) : s[i] = s[j] => i = j}

\* mutant: no ORDER BY, the rows come in any order
OrderByNothing(R) == Perms(R)

RECURSIVE OrderByTimestampAsc(_)
\* ORDER BY timestamp ASC: every order the sort may return (ties are
\* unordered): a row of the least timestamp, then the other rows in order
OrderByTimestampAsc(R) ==
    IF R = {} THEN {<<>>}
    ELSE UNION {{<<x>> \o s : s \in OrderByTimestampAsc(R \ {x})} :
                  x \in {y \in R : \A z \in R : y.timestamp <= z.timestamp}}


\* ------------------------------------------------- hook_record_prompt.py
\* the row INSERT INTO sessions .. VALUES (?, ?, ?, ?, ?, ?) proposes
SessionRow(sid, repo, branch, cwd, now) ==
    [session_id |-> sid, repo_path |-> repo, branch_name |-> branch, cwd |-> cwd,
     started_at |-> now, last_active |-> now]

\* mutant: repo_path = excluded.repo_path, without the CASE
MergeSessionOverwrite(s, repo, branch, cwd, now) ==
    [s EXCEPT !.last_active = now,
              !.repo_path   = repo,
              !.branch_name = IF branch # "" THEN branch ELSE s.branch_name,
              !.cwd         = cwd]

\* mutant: a stored non-empty repo_path / branch_name is kept
MergeSessionFirstWins(s, repo, branch, cwd, now) ==
    [s EXCEPT !.last_active = now,
              !.repo_path   = IF s.repo_path # "" THEN s.repo_path ELSE repo,
              !.branch_name = IF s.branch_name # "" THEN s.branch_name ELSE branch,
              !.cwd         = cwd]

\* ON CONFLICT(session_id) DO UPDATE SET ..: the merge with the stored row
MergeSession(s, repo, branch, cwd, now) ==
    [s EXCEPT !.last_active = now,
              !.repo_path   = IF repo # "" THEN repo ELSE s.repo_path,
              !.branch_name = IF branch # "" THEN branch ELSE s.branch_name,
              !.cwd         = cwd]

\* INSERT INTO sessions .. ON CONFLICT(session_id) DO UPDATE ..
UpsertSession(S, sid, repo, branch, cwd, now) ==
    IF \E s \in S : s.session_id = sid
    THEN {IF s.session_id = sid THEN MergeSession(s, repo, branch, cwd, now) ELSE s : s \in S}
    ELSE S \cup {SessionRow(sid, repo, branch, cwd, now)}

\* mutant: the prompt is stored as committed to a commit still to come
PromptRowCommitted(id, sid, repo, branch, cwd, text, now) ==
    [prompt_id |-> id, session_id |-> sid, repo_path |-> repo, branch_name |-> branch,
     cwd |-> cwd, prompt_text |-> text, timestamp |-> now,
     committed |-> 1, commit_hash |-> "pending"]

\* the row INSERT INTO prompts (..7 columns..) creates; committed and
\* commit_hash take the column defaults of the CREATE TABLE
PromptRow(id, sid, repo, branch, cwd, text, now) ==
    [prompt_id |-> id, session_id |-> sid, repo_path |-> repo, branch_name |-> branch,
     cwd |-> cwd, prompt_text |-> text, timestamp |-> now,
     committed |-> 0, commit_hash |-> NULL]

\* mutant: the id numbers the prompts of the session instead of uuid4()
InsertPromptNumbered(P, id, sid, repo, branch, cwd, text, now) ==
    P \cup {PromptRow(Cardinality({q \in P : q.session_id = sid}) + 1,
                      sid, repo, branch, cwd, text, now)}

InsertPrompt(P, id, sid, repo, branch, cwd, text, now) ==
    P \cup {PromptRow(id, sid, repo, branch, cwd, text, now)}

\* _init_db: CREATE TABLE IF NOT EXISTS sessions, prompts (not prompt_repos)
InitDbHook(sch) == IF sch = "none" THEN "hook" ELSE sch

RpIdle == [pc |-> "idle"]

RECURSIVE Strip(_)
\* str.strip(), for texts whose only whitespace is the blank
Strip(t) ==
    IF t = "" THEN ""
    ELSE IF SubSeq(t, 1, 1) = " " THEN Strip(SubSeq(t, 2, Len(t)))
    ELSE IF SubSeq(t, Len(t), Len(t)) = " " THEN Strip(SubSeq(t, 1, Len(t) - 1))
    ELSE t

\* main, lines 151-153: the prompt of the payload, stripped, else the text
\* _get_prompt_from_transcript finds (data.transcript; "" without a
\* transcript_path or without a user entry in the transcript)
PromptText(data) ==
    IF Strip(data.prompt) # "" THEN Strip(data.prompt) ELSE data.transcript

\* mutant: a payload with a session_id but no text still touches the session
RpReturnTouching(p, data) ==
    /\ rp[p].pc = "idle"
    /\ PromptText(data) = "" \/ data.session_id = ""
    /\ rp' = [rp EXCEPT ![p] = [pc |-> "returned", data |-> data]]
    /\ sessions' = IF data.session_id # "" /\ schema # "none"
                   THEN UpsertSession(sessions, data.session_id, "", "", "", clock)
                   ELSE sessions
    /\ UNCHANGED <<clock, schema, locked, prompts, prompt_repos, nextId,
                   commits, pt, git, tool, batches, config>>

\* main, lines 146-156: without a prompt text or without a session_id the
\* hook returns before it asks git, reads the clock or opens the store
RpReturn(p, data) ==
    /\ rp[p].pc = "idle"
    /\ PromptText(data) = "" \/ data.session_id = ""
    /\ rp' = [rp EXCEPT ![p] = [pc |-> "returned", data |-> data]]
    /\ UNCHANGED <<clock, schema, locked, sessions, prompts, prompt_repos, nextId,
                   commits, pt, git, tool, batches, config>>

\* the hook process that returned early exits
RpExit(p) ==
    /\ rp[p].pc = "returned"
    /\ rp' = [rp EXCEPT ![p] = RpIdle]
    /\ UNCHANGED <<clock, schema, locked, sessions, prompts, prompt_repos, nextId,
                   commits, pt, git, tool, batches, config>>

\* main, lines 137-159: the payload is read, git is asked for the repository
\* and the clock is read, all before the store is opened
RpStart(p, sid, info, text, now) ==
    /\ rp[p].pc = "idle"
    /\ text # "" /\ sid # ""
    /\ now \in {clock, clock + 1}
    /\ now <= MaxPrompts
    /\ clock' = now
    /\ (nextId - 1) + Cardinality({q \in Procs : rp[q].pc # "idle"}) < MaxPrompts
    /\ rp' = [rp EXCEPT ![p] = [pc |-> "ready", session_id |-> sid, cwd |-> info.cwd,
                                repo |-> info.repo, branch |-> info.branch,
                                text |-> text, now |-> now]]
    /\ UNCHANGED <<schema, locked, sessions, prompts, prompt_repos, nextId,
                   commits, pt, git, tool, batches, config>>

\* mutant: autocommit, the session upsert is committed on its own and the
\* prompt insert in a second write
RpWriteAutocommit(p) ==
    /\ rp[p].pc = "ready"
    /\ ~locked
    /\ LET r == rp[p] IN
       IF \E s \in sessions : s.session_id = r.session_id /\ s.last_active = r.now
       THEN /\ prompts' = InsertPrompt(prompts, nextId, r.session_id, r.repo, r.branch,
                                       r.cwd, r.text, r.now)
            /\ nextId' = nextId + 1
            /\ rp' = [rp EXCEPT ![p] = RpIdle]
            /\ UNCHANGED <<schema, sessions>>
       ELSE /\ schema' = InitDbHook(schema)
            /\ sessions' = UpsertSession(sessions, r.session_id, r.repo, r.branch, r.cwd, r.now)
            /\ UNCHANGED <<prompts, nextId, rp>>
    /\ UNCHANGED <<clock, locked, prompt_repos, commits, pt, git, tool, batches, config>>

\* main, lines 161-190: one transaction, session upsert + prompt insert
RpWrite(p) ==
    /\ rp[p].pc = "ready"
    /\ ~locked
    /\ LET r == rp[p] IN
        /\ schema' = InitDbHook(schema)
        /\ sessions' = UpsertSession(sessions, r.session_id, r.repo, r.branch, r.cwd, r.now)
        /\ prompts' = InsertPrompt(prompts, nextId, r.session_id, r.repo, r.branch,
                                   r.cwd, r.text, r.now)
    /\ nextId' = nextId + 1
    /\ rp' = [rp EXCEPT ![p] = RpIdle]
    /\ UNCHANGED <<clock, locked, prompt_repos, commits, pt, git, tool, batches, config>>

\* mutant: the session upsert is committed before the prompt insert fails
RpFailHalfWritten(p) ==
    /\ rp[p].pc = "ready"
    /\ locked
    /\ sessions' = UpsertSession(sessions, rp[p].session_id, rp[p].repo, rp[p].branch,
                                 rp[p].cwd, rp[p].now)
    /\ rp' = [rp EXCEPT ![p] = RpIdle]
    /\ UNCHANGED <<clock, schema, locked, prompts, prompt_repos, nextId,
                   commits, pt, git, tool, batches, config>>

\* mutant: connect without a timeout, the hook keeps waiting for the lock
RpFailNever(p) ==
    /\ rp[p].pc = "ready"
    /\ locked
    /\ UNCHANGED vars

\* main, lines 191-192: the store stayed locked past timeout=5; except: pass
RpFail(p) ==
    /\ rp[p].pc = "ready"
    /\ locked
    /\ rp' = [rp EXCEPT ![p] = RpIdle]
    /\ UNCHANGED <<clock, schema, locked, sessions, prompts, prompt_repos, nextId,
                   commits, pt, git, tool, batches, config>>


\* --------------------------------------------------- git_hooks_helper.py
\* SQL NULL in a column of timestamps
NullTime == 0 - 1

\* LEFT JOIN sessions s USING (session_id): p.* plus s.started_at
JoinSession(p) ==
    IF \E s \in sessions : s.session_id = p.session_id
    THEN {[prompt_id |-> p.prompt_id, session_id |-> p.session_id,
           repo_path |-> p.repo_path, branch_name |-> p.branch_name, cwd |-> p.cwd,
           prompt_text |-> p.prompt_text, timestamp |-> p.timestamp,
           committed |-> p.committed, commit_hash |-> p.commit_hash,
           session_started |-> s.started_at] : s \in {t \in sessions : t.session_id = p.session_id}}
    ELSE {[prompt_id |-> p.prompt_id, session_id |-> p.session_id,
           repo_path |-> p.repo_path, branch_name |-> p.branch_name, cwd |-> p.cwd,
           prompt_text |-> p.prompt_text, timestamp |-> p.timestamp,
           committed |-> p.committed, commit_hash |-> p.commit_hash,
           session_started |-> NullTime]}

\* WHERE p.repo_path = ? AND p.committed = 0
WhereUncommitted(P, repo) == {p \in P : p.repo_path = repo /\ p.committed = 0}

\* get_uncommitted_prompts: the lists the SELECT may return (one per order
\* the sort may give to equal timestamps); [] when there is no DB file
get_uncommitted_prompts(repo) ==
    IF schema = "none" THEN {<<>>}
    ELSE OrderByTimestampAsc(UNION {JoinSession(p) : p \in WhereUncommitted(prompts, repo)})

\* mutant: SET committed = 1 only, the hash is not stored
UpdateFlagOnly(P, repo, hash) ==
    LET hit == WhereUncommitted(P, repo) IN
    [rows     |-> (P \ hit) \cup {[p EXCEPT !.committed = 1] : p \in hit},
     rowcount |-> Cardinality(hit)]

\* mutant: WHERE repo_path = ? without AND committed = 0
UpdateAllOfRepo(P, repo, hash) ==
    LET hit == {p \in P : p.repo_path = repo} IN
    [rows     |-> (P \ hit) \cup {[p EXCEPT !.committed = 1, !.commit_hash = hash] : p \in hit},
     rowcount |-> Cardinality(hit)]

\* mutant: WHERE committed = 0 without repo_path = ?
UpdateAnyRepo(P, repo, hash) ==
    LET hit == {p \in P : p.committed = 0} IN
    [rows     |-> (P \ hit) \cup {[p EXCEPT !.committed = 1, !.commit_hash = hash] : p \in hit},
     rowcount |-> Cardinality(hit)]

\* mutant: the rows are updated and committed one by one, the first only
UpdateOneRow(P, repo, hash) ==
    LET all == WhereUncommitted(P, repo)
        hit == {p \in all : \A q \in all : p.prompt_id <= q.prompt_id} IN
    [rows     |-> (P \ hit) \cup {[p EXCEPT !.committed = 1, !.commit_hash = hash] : p \in hit},
     rowcount |-> Cardinality(hit)]

\* mutant: DELETE FROM prompts WHERE repo_path = ? AND committed = 0
DeleteCommitted(P, repo, hash) ==
    LET hit == WhereUncommitted(P, repo) IN
    [rows     |-> P \ hit,
     rowcount |-> Cardinality(hit)]

\* mutant: WHERE committed = 0 AND (repo_path = ? OR linked to the repository)
UpdateWithLinked(P, repo, hash) ==
    LET hit == {p \in P : /\ p.committed = 0
                          /\ \/ p.repo_path = repo
                             \/ \E l \in prompt_repos :
                                   l.prompt_id = p.prompt_id /\ l.repo_path = repo} IN
    [rows     |-> (P \ hit) \cup {[p EXCEPT !.committed = 1, !.commit_hash = hash] : p \in hit},
     rowcount |-> Cardinality(hit)]

\* UPDATE prompts SET committed = 1, commit_hash = ? WHERE repo_path = ? AND
\* committed = 0: the table afterwards and cur.rowcount
UpdateCommitted(P, repo, hash) ==
    LET hit == WhereUncommitted(P, repo) IN
    [rows     |-> (P \ hit) \cup {[p EXCEPT !.committed = 1, !.commit_hash = hash] : p \in hit},
     rowcount |-> Cardinality(hit)]

\* mark_committed: 0 and no change when there is no DB file or the UPDATE
\* raises (the write lock is not released within timeout=3)
mark_committed(P, repo, hash) ==
    IF schema = "none" \/ locked THEN [rows |-> P, rowcount |-> 0]
    ELSE UpdateCommitted(P, repo, hash)

\* build_provenance_block: "" (here <<>>) without prompts, else the block
\* rendered from the prompts read, here the list of rows it renders
build_provenance_block(repo) == get_uncommitted_prompts(repo)

\* _fmt_ts: strftime("%Y-%m-%d %H:%M"), the timestamp cut to its minute
\* (timestamps count seconds)
_fmt_ts(ts) == [minute |-> ts \div 60]

_DEFAULT_THRESHOLD == 5

\* _load_threshold: verbose_threshold of the config file, else the default
_load_threshold ==
    IF "verbose_threshold" \in DOMAIN config THEN config.verbose_threshold
    ELSE _DEFAULT_THRESHOLD

\* _duration_str: "Ns" below a minute, "Nm" below an hour, else "Hh Mm" / "Hh"
_duration_str(first_ts, last_ts) ==
    LET secs == last_ts - first_ts
        h    == (secs \div 60) \div 60
        m    == (secs \div 60) % 60 IN
    IF secs < 60 THEN ToString(secs) \o "s"
    ELSE IF secs < 3600 THEN ToString(secs \div 60) \o "m"
    ELSE IF m # 0 THEN ToString(h) \o "h " \o ToString(m) \o "m"
    ELSE ToString(h) \o "h"

\* _truncate: text[:limit - 3] + "..." if len(text) > limit else text
_truncate(text, limit) ==
    IF Len(text) > limit THEN SubSeq(text, 1, limit - 3) \o "..." ELSE text

\* sid[:8]
ShortId(sid) == IF Len(sid) > 8 THEN SubSeq(sid, 1, 8) ELSE sid

RECURSIVE SessionOrderLast(_, _)
\* mutant: the session ids in the order of their last appearance
SessionOrderLast(rows, seen) ==
    IF rows = <<>> THEN <<>>
    ELSE LET last == rows[Len(rows)].session_id
             rest == SubSeq(rows, 1, Len(rows) - 1) IN
         IF last \in seen THEN SessionOrderLast(rest, seen)
         ELSE SessionOrderLast(rest, seen \cup {last}) \o <<last>>

RECURSIVE SessionOrder(_, _)
\* the keys of the dict `sessions`, in insertion order: the session ids of
\* the prompts in the order of their first appearance
SessionOrder(rows, seen) ==
    IF rows = <<>> THEN <<>>
    ELSE IF Head(rows).session_id \in seen THEN SessionOrder(Tail(rows), seen)
    ELSE <<Head(rows).session_id>>
            \o SessionOrder(Tail(rows), seen \cup {Head(rows).session_id})

\* mutant: the prompts are not filtered by their session
SessionPromptsAll(rows, sid) == rows

\* sessions[sid]["prompts"]: the prompts of the session, in list order
SessionPrompts(rows, sid) == SelectSeq(rows, LAMBDA r : r.session_id = sid)

\* sessions[sid]["started"]: session_started of the session's first prompt,
\* its timestamp when the join found no session row
SessionStarted(rows, sid) ==
    LET first == Head(SelectSeq(rows, LAMBDA r : r.session_id = sid)) IN
    IF first.session_started = NullTime THEN first.timestamp ELSE first.session_started

\* line 177 / 196: the header line of a session
SessionLine(rows, order, idx, verbose) ==
    LET n == Len(SessionPrompts(rows, order[idx])) IN
    [kind |-> "session", idx |-> idx, started |-> _fmt_ts(SessionStarted(rows, order[idx])),
     id |-> ShortId(order[idx]), n |-> n,
     noun |-> IF verbose /\ ~(n > 1) THEN "prompt" ELSE "prompts"]

\* line 179: the line of a prompt; prompt_id names the prompt it renders
PromptLines(ps) ==
    [i \in 1..Len(ps) |-> [kind |-> "prompt", text |-> _truncate(ps[i].prompt_text, 90),
                           prompt_id |-> ps[i].prompt_id]]

RECURSIVE VerboseLines(_, _, _)
\* lines 174-180: per session its header, its prompts and "#"
VerboseLines(rows, order, idx) ==
    IF idx > Len(order) THEN <<>>
    ELSE <<SessionLine(rows, order, idx, TRUE)>>
            \o PromptLines(SessionPrompts(rows, order[idx]))
            \o <<[kind |-> "#"]>>
            \o VerboseLines(rows, order, idx + 1)

\* mutant: first and last prompt of the first session
FirstLastOfFirstSession(rows) ==
    LET ps == SelectSeq(rows, LAMBDA r : r.session_id = rows[1].session_id) IN
    <<[kind |-> "first", text |-> _truncate(ps[1].prompt_text, 80),
       prompt_id |-> ps[1].prompt_id],
      [kind |-> "last", text |-> _truncate(ps[Len(ps)].prompt_text, 80),
       prompt_id |-> ps[Len(ps)].prompt_id]>>

\* lines 199-200: "# First: .." and "# Last:  .."
FirstLastLines(rows) ==
    <<[kind |-> "first", text |-> _truncate(rows[1].prompt_text, 80),
       prompt_id |-> rows[1].prompt_id],
      [kind |-> "last", text |-> _truncate(rows[Len(rows)].prompt_text, 80),
       prompt_id |-> rows[Len(rows)].prompt_id]>>

\* lines 184-202: the summary line, one line per session, first and last
\* prompt and the pointer to get_session_summary
CondensedLines(rows, order) ==
    <<[kind |-> "summary", total |-> Len(rows), sessions |-> Len(order),
       noun |-> IF Len(order) > 1 THEN "sessions" ELSE "session",
       span |-> _duration_str(rows[1].timestamp, rows[Len(rows)].timestamp)],
      [kind |-> "#"]>>
        \o [idx \in 1..Len(order) |-> SessionLine(rows, order, idx, FALSE)]
        \o <<[kind |-> "#"]>>
        \o FirstLastLines(rows)
        \o <<[kind |-> "#"], [kind |-> "pointer"]>>

\* mutant: the suffix announces the number of all files
FilesLinesTotal(git_files) ==
    IF git_files = <<>> THEN <<>>
    ELSE <<[kind |-> "files",
            shown |-> IF Len(git_files) <= 8 THEN git_files ELSE SubSeq(git_files, 1, 8),
            more  |-> IF Len(git_files) <= 8 THEN 0 ELSE Len(git_files)],
           [kind |-> "#"]>>

\* lines 205-211: the files line, capped at 8 names (more = 0: no suffix)
FilesLines(git_files) ==
    IF git_files = <<>> THEN <<>>
    ELSE <<[kind |-> "files",
            shown |-> IF Len(git_files) <= 8 THEN git_files ELSE SubSeq(git_files, 1, 8),
            more  |-> IF Len(git_files) <= 8 THEN 0 ELSE Len(git_files) - 8],
           [kind |-> "#"]>>

\* mutant: total < threshold
IsVerboseStrict(total, threshold) == total < threshold

\* line 172: total <= threshold
IsVerbose(total, threshold) == total <= threshold

\* build_provenance_block, lines 152-214: the lines of the block rendered
\* from the prompts read; no line ("") without prompts
ProvenanceLines(rows, git_files, threshold) ==
    IF rows = <<>> THEN <<>>
    ELSE <<[kind |-> "empty"], [kind |-> "title"]>>
            \o (IF IsVerbose(Len(rows), threshold)
                THEN VerboseLines(rows, SessionOrder(rows, {}), 1)
                ELSE CondensedLines(rows, SessionOrder(rows, {})))
            \o FilesLines(git_files)
            \o <<[kind |-> "rule"]>>

\* commit sources for which the installed prepare-commit-msg hook exits early
SkipSources == {"merge", "squash", "commit"}
Sources     == {"message", "commit"}

GitIdle == [pc |-> "idle"]

\* mutant: the prompts are marked when the message is prepared
cmd_prepare_commit_msg_marking(repo, source, git_files) ==
    /\ git.pc \in {"idle", "aborted", "marked"}
    /\ commits < MaxCommits
    /\ \E block \in (IF source \in SkipSources THEN {<<>>} ELSE build_provenance_block(repo)) :
          git' = [pc |-> "prepared", repo |-> repo, block |-> block,
                  msg |-> ProvenanceLines(block, git_files, _load_threshold),
                  hash |-> NULL, count |-> 0]
    /\ prompts' = {IF p.repo_path = repo /\ p.committed = 0
                   THEN [p EXCEPT !.committed = 1, !.commit_hash = "pending"] ELSE p : p \in prompts}
    /\ UNCHANGED <<clock, schema, locked, sessions, prompt_repos, nextId,
                   commits, rp, pt, tool, batches, config>>

\* prepare-commit-msg hook + cmd_prepare_commit_msg: the prompts are read
\* (block) and the lines rendered from them (msg) are appended to the commit
\* message file; git_files is what `git diff --name-only` lists
cmd_prepare_commit_msg(repo, source, git_files) ==
    /\ git.pc \in {"idle", "aborted", "marked"}
    /\ commits < MaxCommits
    /\ \E block \in (IF source \in SkipSources THEN {<<>>} ELSE build_provenance_block(repo)) :
          git' = [pc |-> "prepared", repo |-> repo, block |-> block,
                  msg |-> ProvenanceLines(block, git_files, _load_threshold),
                  hash |-> NULL, count |-> 0]
    /\ UNCHANGED <<clock, schema, locked, sessions, prompts, prompt_repos, nextId,
                   commits, rp, pt, tool, batches, config>>

\* the commit is given up after the message was prepared (empty message,
\* editor closed, commit-msg hook failed): no commit object, no post-commit
GitAbort ==
    /\ git.pc = "prepared"
    /\ git' = [git EXCEPT !.pc = "aborted"]
    /\ UNCHANGED <<clock, schema, locked, sessions, prompts, prompt_repos, nextId,
                   commits, rp, pt, tool, batches, config>>

\* git writes the commit object; HASH="$(git rev-parse HEAD)" of post-commit
GitCreate ==
    /\ git.pc = "prepared"
    /\ commits' = commits + 1
    /\ git' = [git EXCEPT !.pc = "created", !.hash = HashOf(commits + 1)]
    /\ UNCHANGED <<clock, schema, locked, sessions, prompts, prompt_repos, nextId,
                   rp, pt, tool, batches, config>>

\* git writes the commit object and `git rev-parse HEAD` of the post-commit
\* script fails (2>/dev/null): HASH is the empty string
GitCreateNoHead ==
    /\ git.pc = "prepared"
    /\ commits' = commits + 1
    /\ git' = [git EXCEPT !.pc = "created", !.hash = ""]
    /\ UNCHANGED <<clock, schema, locked, sessions, prompts, prompt_repos, nextId,
                   rp, pt, tool, batches, config>>

\* post-commit hook + cmd_post_commit
cmd_post_commit ==
    /\ git.pc = "created"
    /\ LET res == mark_committed(prompts, git.repo, git.hash)
           batch == Ids(WhereUncommitted(prompts, git.repo)) IN
        /\ prompts' = res.rows
        /\ git' = [git EXCEPT !.pc = "marked", !.count = res.rowcount]
        /\ batches' = IF schema = "none" \/ locked \/ batch = {} THEN batches
                      ELSE batches \cup {[hash |-> git.hash, ids |-> batch]}
    /\ UNCHANGED <<clock, schema, locked, sessions, prompt_repos, nextId,
                   commits, rp, pt, tool, config>>

\* ------------------------------------------------------ hook_post_tool.py
Branches == {"main", "dev"}          \* answers of _get_branch(file_repo)

\* key of prompt_repos: (prompt_id, repo_path)
SameLink(l, pid, repo) == l.prompt_id = pid /\ l.repo_path = repo

\* mutant: INSERT OR REPLACE, the later write's branch replaces the first
InsertOrReplaceLink(L, pid, repo, branch) ==
    {l \in L : ~SameLink(l, pid, repo)}
        \cup {[prompt_id |-> pid, repo_path |-> repo, branch_name |-> branch]}

\* INSERT OR IGNORE INTO prompt_repos (prompt_id, repo_path, branch_name)
InsertOrIgnoreLink(L, pid, repo, branch) ==
    IF \E l \in L : SameLink(l, pid, repo) THEN L
    ELSE L \cup {[prompt_id |-> pid, repo_path |-> repo, branch_name |-> branch]}

\* SELECT prompt_id FROM prompts WHERE session_id = ? ORDER BY timestamp DESC
\* LIMIT 1: the ids the statement may return (empty: no row)
LatestPromptIds(sid) ==
    LET mine == {q \in prompts : q.session_id = sid} IN
    {q.prompt_id : q \in {r \in mine : \A o \in mine : o.timestamp <= r.timestamp}}

PtIdle == [pc |-> "idle"]

\* the hook process has run to its end; outcome tells how
PtDone(outcome, sid, pid, file_repo) ==
    [pc |-> "exit", outcome |-> outcome, session_id |-> sid, prompt_id |-> pid,
     file_repo |-> file_repo]

\* line 31
TRACKED_TOOLS == {"Write", "Edit", "MultiEdit", "NotebookEdit"}

\* _get_repo_root(file_path): `git rev-parse --show-toplevel` in the
\* directory of the file, for the files explored
_get_repo_root(file_path) ==
    IF file_path = "/r/a.py" THEN "/r" ELSE IF file_path = "/x/b.py" THEN "/x" ELSE ""

\* main, lines 76-89: the event passes the three early returns
Observed(data) ==
    /\ data.tool_name \in TRACKED_TOOLS
    /\ data.session_id # ""
    /\ data.file_path # ""

\* mutant: the tool name is not tested, the latest prompt of the session is
\* linked to the repository of any file a tool names
PtReturnLinking(p, data) ==
    /\ pt[p].pc = "idle"
    /\ ~Observed(data)
    /\ pt' = [pt EXCEPT ![p] = [pc |-> "exit", outcome |-> "returned", data |-> data]]
    /\ prompt_repos' =
          IF schema = "full" /\ ~locked /\ data.file_path # ""
          THEN prompt_repos \cup
                  {[prompt_id |-> q.prompt_id, repo_path |-> _get_repo_root(data.file_path),
                    branch_name |-> "main"] :
                     q \in {r \in prompts : r.session_id = data.session_id}}
          ELSE prompt_repos
    /\ UNCHANGED <<clock, schema, locked, sessions, prompts, nextId,
                   commits, rp, git, tool, batches, config>>

\* main, lines 75-89: the hook returns on a tool name outside TRACKED_TOOLS,
\* without a session_id, and without a tool_input that names a file_path,
\* before it opens the store
PtReturn(p, data) ==
    /\ pt[p].pc = "idle"
    /\ ~Observed(data)
    /\ pt' = [pt EXCEPT ![p] = [pc |-> "exit", outcome |-> "returned", data |-> data]]
    /\ UNCHANGED <<clock, schema, locked, sessions, prompts, prompt_repos, nextId,
                   commits, rp, git, tool, batches, config>>

\* mutant: a session the store does not know is registered by the observer
PtIgnoreTouching(p, sid, file_repo) ==
    /\ pt[p].pc = "idle"
    /\ \/ schema = "none"
       \/ file_repo = ""
       \/ \A t \in sessions : t.session_id # sid
       \/ \E t \in sessions : t.session_id = sid /\ t.repo_path = file_repo
    /\ pt' = [pt EXCEPT ![p] = PtDone("ignored", sid, NULL, file_repo)]
    /\ sessions' = IF schema # "none" /\ \A t \in sessions : t.session_id # sid
                   THEN sessions \cup {SessionRow(sid, file_repo, "", "", clock)}
                   ELSE sessions
    /\ UNCHANGED <<clock, schema, locked, prompts, prompt_repos, nextId,
                   commits, rp, git, tool, batches, config>>

\* main, lines 95-114, the early returns: no DB file; no row of the session;
\* the file in no repository, or in the session's primary repository
PtIgnore(p, sid, file_repo) ==
    /\ pt[p].pc = "idle"
    /\ \/ schema = "none"
       \/ file_repo = ""
       \/ \A t \in sessions : t.session_id # sid
       \/ \E t \in sessions : t.session_id = sid /\ t.repo_path = file_repo
    /\ pt' = [pt EXCEPT ![p] = PtDone("ignored", sid, NULL, file_repo)]
    /\ UNCHANGED <<clock, schema, locked, sessions, prompts, prompt_repos, nextId,
                   commits, rp, git, tool, batches, config>>

\* main, lines 67-114: a tracked write of `sid` into repository file_repo,
\* which is not the session's primary repository read from the store
PtSession(p, sid, file_repo) ==
    /\ pt[p].pc = "idle"
    /\ schema # "none"
    /\ file_repo # ""
    /\ \E row \in {t \in sessions : t.session_id = sid} :
          /\ file_repo # row.repo_path
          /\ pt' = [pt EXCEPT ![p] = [pc |-> "sess", session_id |-> sid, file_repo |-> file_repo]]
    /\ UNCHANGED <<clock, schema, locked, sessions, prompts, prompt_repos, nextId,
                   commits, rp, git, tool, batches, config>>

\* main, lines 116-124: the most recent prompt of the session is read
PtPrompt(p) ==
    /\ pt[p].pc = "sess"
    /\ IF LatestPromptIds(pt[p].session_id) = {}
       THEN pt' = [pt EXCEPT ![p] = PtDone("ignored", pt[p].session_id, NULL, pt[p].file_repo)]
       ELSE \E pid \in LatestPromptIds(pt[p].session_id) :
               pt' = [pt EXCEPT ![p] = [pc |-> "prompt", session_id |-> pt[p].session_id,
                                        prompt_id |-> pid, file_repo |-> pt[p].file_repo]]
    /\ UNCHANGED <<clock, schema, locked, sessions, prompts, prompt_repos, nextId,
                   commits, rp, git, tool, batches, config>>

\* main, lines 126-134: the link is inserted and committed; the insert raises
\* (and the hook passes) without table prompt_repos or under a held lock
PtInsert(p, branch) ==
    /\ pt[p].pc = "prompt"
    /\ prompt_repos' = IF schema = "full" /\ ~locked
                       THEN InsertOrIgnoreLink(prompt_repos, pt[p].prompt_id, pt[p].file_repo, branch)
                       ELSE prompt_repos
    /\ pt' = [pt EXCEPT ![p] =
                PtDone(IF schema # "full" \/ locked THEN "failed"
                       ELSE IF \E l \in prompt_repos : SameLink(l, pt[p].prompt_id, pt[p].file_repo)
                            THEN "present" ELSE "linked",
                       pt[p].session_id, pt[p].prompt_id, pt[p].file_repo)]
    /\ UNCHANGED <<clock, schema, locked, sessions, prompts, nextId,
                   commits, rp, git, tool, batches, config>>

\* the hook process exits
PtExit(p) ==
    /\ pt[p].pc = "exit"
    /\ pt' = [pt EXCEPT ![p] = PtIdle]
    /\ UNCHANGED <<clock, schema, locked, sessions, prompts, prompt_repos, nextId,
                   commits, rp, git, tool, batches, config>>

\* ---------------------------------------------- database.py (sqlite store)
\* init_db: creates the three tables
db_init_db(sch) == "full"

db_get_uncommitted_prompts(repo) == get_uncommitted_prompts(repo)

\* prompts_for_commits: commit_hash IN hashes, oldest first
db_get_prompts_for_commits(hashes) ==
    OrderByTimestampAsc(UNION {JoinSession(p) : p \in {q \in prompts : q.commit_hash \in hashes}})

\* cross_repo_prompts: linked to repo although their own repo_path differs
db_get_cross_repo_prompts(repo) ==
    OrderByTimestampAsc(UNION {JoinSession(p) :
        p \in {q \in prompts : /\ q.repo_path # repo
                               /\ \E l \in prompt_repos : SameLink(l, q.prompt_id, repo)}})

\* prompts_for_session: the prompts of the session, oldest first
db_get_session_prompts(sid) ==
    OrderByTimestampAsc({q \in prompts : q.session_id = sid})

\* the session row of sid, if any
db_get_session_info(sid) == {t \in sessions : t.session_id = sid}

\* list_sessions(repo, limit=1): the most recently active session of repo
db_list_sessions(repo) ==
    LET mine == {t \in sessions : t.repo_path = repo} IN
    {t \in mine : \A o \in mine : o.last_active <= t.last_active}

\* mark_committed: the uncommitted prompts of repo get the hash
db_mark_committed(P, repo, hash) == UpdateCommitted(P, repo, hash)

\* ------------------------------------------------------------ mcp_tools.py
RECURSIVE Dedup(_, _)
\* build_pr_body, lines 146-152: the first occurrence of every prompt_id
Dedup(s, seen) ==
    IF s = <<>> THEN <<>>
    ELSE IF Head(s).prompt_id \in seen THEN Dedup(Tail(s), seen)
    ELSE <<Head(s)>> \o Dedup(Tail(s), seen \cup {Head(s).prompt_id})

RECURSIVE InsertByTimestamp(_, _)
InsertByTimestamp(x, s) ==
    IF s = <<>> THEN <<x>>
    ELSE IF Head(s).timestamp <= x.timestamp THEN <<Head(s)>> \o InsertByTimestamp(x, Tail(s))
    ELSE <<x>> \o s

\* mutant: the merged list is left in the order of the three queries
SortByNothing(s) == s

RECURSIVE SortByTimestamp(_)
\* all_prompts.sort(key=lambda p: p["timestamp"]): a stable sort
SortByTimestamp(s) ==
    IF s = <<>> THEN <<>>
    ELSE InsertByTimestamp(s[Len(s)], SortByTimestamp(SubSeq(s, 1, Len(s) - 1)))

\* lines 177-179 / 331-333: text[:117] + "..." if len(text) > 120 else text
CutTo120(text) == IF Len(text) > 120 THEN SubSeq(text, 1, 117) \o "..." ELSE text

\* mutant: only the first prompt of a session is listed
SessionPromptLinesFirst(ps) ==
    [i \in 1..1 |-> [kind |-> "prompt", text |-> CutTo120(ps[i].prompt_text),
                     prompt_id |-> ps[i].prompt_id]]

\* lines 176-180 / 329-334: one line per prompt of a session
SessionPromptLines(ps) ==
    [i \in 1..Len(ps) |-> [kind |-> "prompt", text |-> CutTo120(ps[i].prompt_text),
                           prompt_id |-> ps[i].prompt_id]]

RECURSIVE SessionBlocks(_, _, _)
\* lines 169-181 / 322-335: sessions_seen.setdefault(..).append(p), then per
\* session (numbered from 1) its header, its prompts and an empty line
SessionBlocks(rows, order, idx) ==
    IF idx > Len(order) THEN <<>>
    ELSE <<[kind |-> "session", idx |-> idx,
            started |-> _fmt_ts(SessionStarted(rows, order[idx])),
            id |-> ShortId(order[idx])]>>
            \o SessionPromptLines(SessionPrompts(rows, order[idx]))
            \o <<[kind |-> "empty"]>>
            \o SessionBlocks(rows, order, idx + 1)

\* lines 183-188 / 339-343: the files line, capped at 20 names
FilesUpTo20(files) ==
    IF files = <<>> THEN <<>>
    ELSE <<[kind |-> "files",
            shown |-> IF Len(files) <= 20 THEN files ELSE SubSeq(files, 1, 20),
            more  |-> IF Len(files) <= 20 THEN 0 ELSE Len(files) - 20],
           [kind |-> "empty"]>>

\* mutant: without prompts the base message is returned alone
CommitContextLinesSilent(base_message, rows, git_files) ==
    (IF base_message # "" THEN <<[kind |-> "base", text |-> base_message], [kind |-> "empty"]>>
     ELSE <<>>)
        \o (IF rows = <<>> THEN <<>>
            ELSE <<[kind |-> "title"], [kind |-> "empty"]>>
                    \o SessionBlocks(rows, SessionOrder(rows, {}), 1)
                    \o FilesUpTo20(git_files))
        \o <<[kind |-> "footer", total |-> Len(rows)]>>

\* handle_generate_commit_context, lines 310-347: the lines of its text
CommitContextLines(base_message, rows, git_files) ==
    (IF base_message # "" THEN <<[kind |-> "base", text |-> base_message], [kind |-> "empty"]>>
     ELSE <<>>)
        \o (IF rows = <<>> THEN <<[kind |-> "none"]>>
            ELSE <<[kind |-> "title"], [kind |-> "empty"]>>
                    \o SessionBlocks(rows, SessionOrder(rows, {}), 1)
                    \o FilesUpTo20(git_files))
        \o <<[kind |-> "footer", total |-> Len(rows)]>>

\* build_pr_body, lines 158-193: the lines of the PR body (of the counts
\* line and the footer, the numbers of prompts and of files)
PrBodyLines(rows, files_changed) ==
    <<[kind |-> "title"], [kind |-> "empty"], [kind |-> "branch"],
      [kind |-> "counts", prompts |-> Len(rows), files |-> Len(files_changed)],
      [kind |-> "empty"]>>
        \o (IF rows = <<>> THEN <<[kind |-> "none"]>>
            ELSE SessionBlocks(rows, SessionOrder(rows, {}), 1))
        \o FilesUpTo20(files_changed)
        \o <<[kind |-> "footer", total |-> Len(rows)]>>

ToolIdle == [pc |-> "idle"]

\* MCPToolHandlers.__init__: the server starts and initialises the store
ServerStart ==
    /\ schema # "full"
    /\ ~locked
    /\ schema' = db_init_db(schema)
    /\ UNCHANGED <<clock, locked, sessions, prompts, prompt_repos, nextId,
                   commits, rp, pt, git, tool, batches, config>>

\* mutant: the tool marks the prompts it rendered
handle_generate_commit_context_marking(repo, base_message, git_files) ==
    /\ tool.pc = "idle"
    /\ \E rows \in db_get_uncommitted_prompts(repo) :
          tool' = [pc |-> "done", op |-> "generate_commit_context", repo |-> repo, rows |-> rows,
                   base |-> base_message,
                   text |-> CommitContextLines(base_message, rows, git_files)]
    /\ prompts' = {IF p.repo_path = repo /\ p.committed = 0
                   THEN [p EXCEPT !.committed = 1, !.commit_hash = "pending"] ELSE p : p \in prompts}
    /\ UNCHANGED <<clock, schema, locked, sessions, prompt_repos, nextId,
                   commits, rp, pt, git, batches, config>>

\* handle_generate_commit_context: the prompts read (rows) and the lines of
\* the text rendered from them after the base message
handle_generate_commit_context(repo, base_message, git_files) ==
    /\ tool.pc = "idle"
    /\ \E rows \in db_get_uncommitted_prompts(repo) :
          tool' = [pc |-> "done", op |-> "generate_commit_context", repo |-> repo, rows |-> rows,
                   base |-> base_message,
                   text |-> CommitContextLines(base_message, rows, git_files)]
    /\ UNCHANGED <<clock, schema, locked, sessions, prompts, prompt_repos, nextId,
                   commits, rp, pt, git, batches, config>>

\* build_pr_body, lines 137-141: the commits of the range, then the first query
PrCommitted(repo, hashes) ==
    /\ tool.pc = "idle"
    /\ \E rows \in db_get_prompts_for_commits(hashes) :
          tool' = [pc |-> "pr_committed", op |-> "build_pr_body", repo |-> repo, rows |-> rows]
    /\ UNCHANGED <<clock, schema, locked, sessions, prompts, prompt_repos, nextId,
                   commits, rp, pt, git, batches, config>>

\* build_pr_body, line 142: the second query
PrUncommitted ==
    /\ tool.pc = "pr_committed"
    /\ \E rows \in db_get_uncommitted_prompts(tool.repo) :
          tool' = [tool EXCEPT !.pc = "pr_uncommitted", !.rows = tool.rows \o rows]
    /\ UNCHANGED <<clock, schema, locked, sessions, prompts, prompt_repos, nextId,
                   commits, rp, pt, git, batches, config>>

\* mutant: the three lists are merged without the `seen` set
PrCrossRepoNoDedup(files_changed) ==
    /\ tool.pc = "pr_uncommitted"
    /\ \E rows \in db_get_cross_repo_prompts(tool.repo) :
          LET all_prompts == SortByTimestamp(tool.rows \o rows) IN
          tool' = [pc |-> "done", op |-> "build_pr_body", repo |-> tool.repo,
                   read |-> tool.rows \o rows,
                   rows |-> all_prompts,
                   text |-> PrBodyLines(all_prompts, files_changed)]
    /\ UNCHANGED <<clock, schema, locked, sessions, prompts, prompt_repos, nextId,
                   commits, rp, pt, git, batches, config>>

\* build_pr_body, lines 143-193: the third query, then merge, dedup and sort
\* (rows; read is the three lists as returned, one after the other) and the
\* lines of the body rendered from the merged list
PrCrossRepo(files_changed) ==
    /\ tool.pc = "pr_uncommitted"
    /\ \E rows \in db_get_cross_repo_prompts(tool.repo) :
          LET all_prompts == SortByTimestamp(Dedup(tool.rows \o rows, {})) IN
          tool' = [pc |-> "done", op |-> "build_pr_body", repo |-> tool.repo,
                   read |-> tool.rows \o rows,
                   rows |-> all_prompts,
                   text |-> PrBodyLines(all_prompts, files_changed)]
    /\ UNCHANGED <<clock, schema, locked, sessions, prompts, prompt_repos, nextId,
                   commits, rp, pt, git, batches, config>>

\* handle_get_session_summary, lines 221-233: the session is resolved (the
\* most recent one of the repository when none is named) and its row read;
\* an error text is returned when there is none
handle_get_session_summary(repo, session_id) ==
    /\ tool.pc = "idle"
    /\ LET found == IF session_id = NULL THEN db_list_sessions(repo)
                    ELSE db_get_session_info(session_id) IN
       IF found = {}
       THEN tool' = [pc |-> "done", op |-> "get_session_summary", repo |-> repo,
                     rows |-> <<>>, error |-> TRUE]
       ELSE \E t \in found :
               tool' = [pc |-> "summary", op |-> "get_session_summary", repo |-> repo,
                        rows |-> <<>>, error |-> FALSE, session |-> t]
    /\ UNCHANGED <<clock, schema, locked, sessions, prompts, prompt_repos, nextId,
                   commits, rp, pt, git, batches, config>>

\* handle_get_session_summary, lines 235-262: the prompts of the session
SummaryPrompts ==
    /\ tool.pc = "summary"
    /\ \E rows \in db_get_session_prompts(tool.session.session_id) :
          tool' = [tool EXCEPT !.pc = "done", !.rows = rows]
    /\ UNCHANGED <<clock, schema, locked, sessions, prompts, prompt_repos, nextId,
                   commits, rp, pt, git, batches, config>>

\* mutant: the threshold is stored before it is validated
handle_configure_unchecked(args) ==
    /\ tool.pc = "idle"
    /\ config' = IF "verbose_threshold" \in DOMAIN args
                 THEN [verbose_threshold |-> args.verbose_threshold] ELSE config
    /\ tool' = [pc |-> "done", op |-> "configure", repo |-> NULL, rows |-> <<>>,
                error |-> "verbose_threshold" \in DOMAIN args /\ args.verbose_threshold < 1]
    /\ UNCHANGED <<clock, schema, locked, sessions, prompts, prompt_repos, nextId,
                   commits, rp, pt, git, batches>>

\* handle_configure: without arguments the settings are returned; a
\* verbose_threshold below 1 is an error; else it is saved to the config file
handle_configure(args) ==
    /\ tool.pc = "idle"
    /\ IF "verbose_threshold" \in DOMAIN args /\ args.verbose_threshold >= 1
       THEN config' = [verbose_threshold |-> args.verbose_threshold]
       ELSE config' = config
    /\ tool' = [pc |-> "done", op |-> "configure", repo |-> NULL, rows |-> <<>>,
                error |-> "verbose_threshold" \in DOMAIN args /\ args.verbose_threshold < 1]
    /\ UNCHANGED <<clock, schema, locked, sessions, prompts, prompt_repos, nextId,
                   commits, rp, pt, git, batches>>

\* handle_mark_committed: the hash of the arguments, else what `git
\* rev-parse HEAD` prints (head; "" when it fails); without a hash an error
\* is returned, else the prompts of the repository are marked
handle_mark_committed(repo, commit_hash, head) ==
    /\ tool.pc = "idle"
    /\ ~locked
    /\ schema # "none"
    /\ LET hash  == IF commit_hash # "" THEN commit_hash ELSE head
           res   == db_mark_committed(prompts, repo, hash)
           batch == Ids(WhereUncommitted(prompts, repo)) IN
       IF hash = ""
       THEN /\ tool' = [pc |-> "done", op |-> "mark_committed", repo |-> repo, rows |-> <<>>,
                        error |-> TRUE, hash |-> hash, count |-> 0]
            /\ UNCHANGED <<prompts, batches>>
       ELSE /\ tool' = [pc |-> "done", op |-> "mark_committed", repo |-> repo, rows |-> <<>>,
                        error |-> FALSE, hash |-> hash, count |-> res.rowcount]
            /\ prompts' = res.rows
            /\ batches' = IF batch = {} THEN batches
                          ELSE batches \cup {[hash |-> hash, ids |-> batch]}
    /\ UNCHANGED <<clock, schema, locked, sessions, prompt_repos, nextId,
                   commits, rp, pt, git, config>>

\* the tool call returns its text
ToolReturn ==
    /\ tool.pc = "done"
    /\ tool' = ToolIdle
    /\ UNCHANGED <<clock, schema, locked, sessions, prompts, prompt_repos, nextId,
                   commits, rp, pt, git, batches, config>>

\* ------------------------------------------------------------ environment
\* a process outside the model takes the store's write lock and keeps it
\* longer than the hooks wait
ExtLock ==
    /\ schema # "none"
    /\ ~locked
    /\ locked' = TRUE
    /\ UNCHANGED <<clock, schema, sessions, prompts, prompt_repos, nextId,
                   commits, rp, pt, git, tool, batches, config>>

ExtUnlock ==
    /\ locked
    /\ locked' = FALSE
    /\ UNCHANGED <<clock, schema, sessions, prompts, prompt_repos, nextId,
                   commits, rp, pt, git, tool, batches, config>>

\* ---------------------------------------------------------- specification
Init ==
    /\ clock = 0
    /\ schema = "none"
    /\ locked = FALSE
    /\ sessions = {}
    /\ prompts = {}
    /\ prompt_repos = {}
    /\ nextId = 1
    /\ commits = 0
    /\ rp = [p \in Procs |-> RpIdle]
    /\ pt = [p \in Procs |-> PtIdle]
    /\ git = GitIdle
    /\ tool = ToolIdle
    /\ batches = {}
    /\ config = <<>>

CreatedHashes == {HashOf(n) : n \in 1..commits}

\* prompt texts of 95, of 85 and of fewer characters
TextOf(i) ==
    IF i = 1 THEN "refactor the session upsert so that the repository path is resolved once and the branch too, ok"
    ELSE IF i = 2 THEN "write a regression test for the commit message block with six prompts of two sessions"
    ELSE "prompt " \o ToString(i)

\* seconds between two prompts
Paces == {1, 45, 1800}

RECURSIVE Recorded(_, _, _)
\* the store after n runs of the prompt hook in /r, one after the other,
\* the i-th for session who[i] at time i * pace
Recorded(n, who, pace) ==
    IF n = 0 THEN [sessions |-> {}, prompts |-> {}]
    ELSE LET before == Recorded(n - 1, who, pace) IN
         [sessions |-> UpsertSession(before.sessions, who[n], "/r", "main", "/r", n * pace),
          prompts  |-> InsertPrompt(before.prompts, n, who[n], "/r", "main", "/r",
                                    TextOf(n), n * pace)]

\* A store that holds up to MaxBlock recorded prompts of /r, none committed.
InitFormat ==
    \E n \in 0..MaxBlock, pace \in Paces : \E who \in [1..n -> SessionIds] :
        /\ clock = n * pace
        /\ schema = "full"
        /\ locked = FALSE
        /\ sessions = Recorded(n, who, pace).sessions
        /\ prompts = Recorded(n, who, pace).prompts
        /\ prompt_repos = {}
        /\ nextId = n + 1
        /\ commits = 0
        /\ rp = [p \in Procs |-> RpIdle]
        /\ pt = [p \in Procs |-> PtIdle]
        /\ git = GitIdle
        /\ tool = ToolIdle
        /\ batches = {}
        /\ config = <<>>

\* what `git diff --name-only` lists: k file names
FilesOf(k) == [i \in 1..k |-> "f" \o ToString(i)]
FileLists == {FilesOf(0), FilesOf(8), FilesOf(9)}

ConfigArgs == {<<>>} \cup {[verbose_threshold |-> v] : v \in 0..MaxThreshold}

\* commit_message of generate_commit_context: none, or a subject line
BaseMessages == {"", "fix: typo in README"}
\* arguments of configure: none, a rejected threshold, a threshold of 2
FewConfigArgs == {<<>>, [verbose_threshold |-> 0], [verbose_threshold |-> 2]}

\* The hook and tool processes, over the inputs a specification explores.
\* D = {1}: every clock reading is later than the one before; D = {0, 1}:
\* two readings may also fall into the same microsecond.
RecordPromptHooks(PP, SS, II, D) ==
    \/ \E p \in PP, sid \in SS, info \in II, text \in Texts, now \in {clock + d : d \in D} :
          RpStart(p, sid, info, text, now)
    \/ \E p \in PP : RpWrite(p)

PostToolHooks(PP, SS, RR, BB) ==
    \/ ServerStart
    \/ \E p \in PP, sid \in SS, repo \in RR : PtIgnore(p, sid, repo)
    \/ \E p \in PP, sid \in SS, repo \in RR : PtSession(p, sid, repo)
    \/ \E p \in PP : PtPrompt(p)
    \/ \E p \in PP, branch \in BB : PtInsert(p, branch)
    \/ \E p \in PP : PtExit(p)

GitCommit(RR, SRC, FF) ==
    \/ \E repo \in RR, source \in SRC, git_files \in FF :
          cmd_prepare_commit_msg(repo, source, git_files)
    \/ GitAbort
    \/ GitCreate
    \/ cmd_post_commit

ToolCalls(RR, MM, FF) ==
    \/ \E repo \in RR, base_message \in MM, git_files \in FF :
          handle_generate_commit_context(repo, base_message, git_files)
    \/ \E repo \in RR, hashes \in SUBSET CreatedHashes : PrCommitted(repo, hashes)
    \/ PrUncommitted
    \/ \E files_changed \in FF : PrCrossRepo(files_changed)
    \/ ToolReturn

SummaryCalls(RR, SS) ==
    \/ \E repo \in RR, sid \in SS : handle_get_session_summary(repo, sid)
    \/ SummaryPrompts
    \/ ToolReturn

ConfigCalls(AA) ==
    \/ \E args \in AA : handle_configure(args)
    \/ ToolReturn

LockedStore(PP) ==
    \/ ExtLock
    \/ ExtUnlock
    \/ \E p \in PP : RpFail(p)

NamedRepos == {i \in RepoInfos : i.repo # ""}

\* The commit lifecycle: one prompt hook at a time, in any session and
\* directory, runs beside `git commit`, with the store at times locked.
Next ==
    \/ RecordPromptHooks({1}, SessionIds, RepoInfos, {1})
    \/ GitCommit(Repos, Sources, {<<>>})
    \/ LockedStore({1})

Spec == Init /\ [][Next]_vars

\* Linking: prompt hook, write observer and `git commit` side by side.
NextLink ==
    \/ RecordPromptHooks({1}, {"S1"}, NamedRepos, {1})
    \/ PostToolHooks({1}, {"S1"}, Repos, {"main"})
    \/ GitCommit(Repos, {"message"}, {<<>>})

SpecLink == Init /\ [][NextLink]_vars

\* Observing: two write observers of two sessions, one of them unknown to
\* the store, beside a prompt hook.
NextObserve ==
    \/ RecordPromptHooks({1}, {"S1"}, NamedRepos, {1})
    \/ PostToolHooks({1, 2}, SessionIds, {"/x"}, Branches)

SpecObserve == Init /\ [][NextObserve]_vars

\* Ordering: two prompt hooks, which may write in the opposite order of
\* their clock readings and may read the same instant, beside `git commit`.
NextOrder ==
    \/ RecordPromptHooks({1, 2}, {"S1"}, RepoInfos, {0, 1})
    \/ GitCommit({"/r"}, {"message"}, {<<>>})

SpecOrder == Init /\ [][NextOrder]_vars

\* Reading: the MCP tools read /r while a prompt hook, the write observer
\* and `git commit` write.
NextTools ==
    \/ RecordPromptHooks({1}, {"S1"}, NamedRepos, {1})
    \/ PostToolHooks({1}, {"S1"}, {"/r"}, {"main"})
    \/ GitCommit({"/r"}, {"message"}, {<<>>})
    \/ ToolCalls({"/r"}, {""}, {<<>>})

SpecTools == Init /\ [][NextTools]_vars

\* Session summary: the get_session_summary tool reads while two prompt
\* hooks of two sessions and `git commit` write.
NextSummary ==
    \/ RecordPromptHooks({1, 2}, SessionIds, {i \in RepoInfos : i.repo = "/r"}, {1})
    \/ GitCommit({"/r"}, {"message"}, {<<>>})
    \/ SummaryCalls({"/r"}, SessionIds \cup {NULL})

SpecSummary == Init /\ [][NextSummary]_vars

\* Formatting: `git commit` in a repository with up to MaxBlock uncommitted
\* prompts, under every verbose_threshold the configure tool accepts.
NextFormat ==
    \/ GitCommit({"/r"}, {"message"}, FileLists)
    \/ ConfigCalls(ConfigArgs)

SpecFormat == InitFormat /\ [][NextFormat]_vars

\* Commit context: the generate_commit_context tool, the PR rollup and
\* `git commit` in a repository with up to MaxBlock uncommitted prompts,
\* under the default threshold and a configured one.
NextContext ==
    \/ GitCommit({"/r"}, {"message"}, {<<>>})
    \/ \E args \in FewConfigArgs : handle_configure(args)
    \/ \E base_message \in BaseMessages, git_files \in {FilesOf(0), FilesOf(21)} :
          handle_generate_commit_context("/r", base_message, git_files)
    \/ \E hashes \in {CreatedHashes} : PrCommitted("/r", hashes)
    \/ PrUncommitted
    \/ \E files_changed \in {<<>>} : PrCrossRepo(files_changed)
    \/ ToolReturn

SpecContext == InitFormat /\ [][NextContext]_vars

\* Where a prompt is recorded, and whether the session's next tracked write
\* lands in /r (the observer links the prompt to /r when it is not of /r).
Places == {[info |-> i, touch |-> t] : i \in NamedRepos, t \in BOOLEAN}

RECURSIVE Linked(_, _, _)
\* the store after n prompts, one after the other: the i-th of session
\* who[i], recorded at place[i].info at time i, then (touch) a write of that
\* session into /r seen by the observer
Linked(n, who, place) ==
    IF n = 0 THEN [sessions |-> {}, prompts |-> {}, prompt_repos |-> {}]
    ELSE LET before == Linked(n - 1, who, place)
             info   == place[n].info IN
         [sessions |-> UpsertSession(before.sessions, who[n], info.repo, info.branch,
                                     info.cwd, n),
          prompts  |-> InsertPrompt(before.prompts, n, who[n], info.repo, info.branch,
                                    info.cwd, TextOf(n), n),
          prompt_repos |-> IF place[n].touch /\ info.repo # "/r"
                           THEN InsertOrIgnoreLink(before.prompt_repos, n, "/r", "main")
                           ELSE before.prompt_repos]

\* A store that holds up to MaxRollup prompts of two sessions, recorded in
\* /r and /x, some of those of /x linked to /r, none committed.
InitRollup ==
    \E n \in 0..MaxRollup : \E who \in [1..n -> SessionIds], place \in [1..n -> Places] :
        /\ clock = n
        /\ schema = "full"
        /\ locked = FALSE
        /\ sessions = Linked(n, who, place).sessions
        /\ prompts = Linked(n, who, place).prompts
        /\ prompt_repos = Linked(n, who, place).prompt_repos
        /\ nextId = n + 1
        /\ commits = 0
        /\ rp = [p \in Procs |-> RpIdle]
        /\ pt = [p \in Procs |-> PtIdle]
        /\ git = GitIdle
        /\ tool = ToolIdle
        /\ batches = {}
        /\ config = <<>>

\* PR rollup: build_pr_body of /r, over the commits made so far or some of
\* them, while commits are made in both working trees.
NextRollup ==
    \/ GitCommit(Repos, {"message"}, {<<>>})
    \/ \E hashes \in SUBSET CreatedHashes : PrCommitted("/r", hashes)
    \/ PrUncommitted
    \/ \E files_changed \in {FilesOf(21)} : PrCrossRepo(files_changed)
    \/ ToolReturn

SpecRollup == InitRollup /\ [][NextRollup]_vars

\* Failing open: the four hooks (prompt hook, write observer of /x,
\* prepare-commit-msg and post-commit of /r) on a store that is missing at
\* first, lacks table prompt_repos until the server starts, and is at
\* times locked by another process for longer than a hook waits.
NextFailOpen ==
    \/ RecordPromptHooks({1}, {"S1"}, {i \in RepoInfos : i.repo = "/r"}, {1})
    \/ PostToolHooks({1}, {"S1"}, {"/x"}, {"main"})
    \/ GitCommit({"/r"}, {"message"}, {<<>>})
    \/ LockedStore({1})

SpecFailOpen == Init /\ [][NextFailOpen]_vars

\* Every hook process that has started is scheduled until it ends: the
\* prompt hook writes or gives up, the observer runs its statements,
\* post-commit runs once git has created the commit.  The process that
\* holds the write lock is under no obligation to release it.
FairHooks ==
    /\ WF_vars(RpWrite(1) \/ RpFail(1))
    /\ WF_vars(PtPrompt(1))
    /\ WF_vars(PtInsert(1, "main"))
    /\ WF_vars(cmd_post_commit)

SpecTerminate == Init /\ [][NextFailOpen]_vars /\ FairHooks

\* stdin of the prompt hook: the session_id and the prompt, each present
\* or not (the prompt also blank), and what the transcript holds
Payloads ==
    {[session_id |-> sid, prompt |-> pr, transcript |-> tr] :
        sid \in {"S1", ""}, pr \in {" fix the bug ", "  ", ""},
        tr \in {"", "from the transcript"}}

PayloadHooks(PP, DD, II) ==
    \/ \E p \in PP, data \in DD, info \in II, now \in {clock + 1} :
          RpStart(p, data.session_id, info, PromptText(data), now)
    \/ \E p \in PP, data \in DD : RpReturn(p, data)
    \/ \E p \in PP : RpWrite(p)
    \/ \E p \in PP : RpExit(p)

\* Payloads: two prompt hooks fed complete and incomplete payloads.
NextPayload == PayloadHooks({1, 2}, Payloads, {i \in RepoInfos : i.repo = "/r"})

SpecPayload == Init /\ [][NextPayload]_vars

\* Lifecycle of the rows: a session that records prompts in /r and in /x
\* and writes files into /r from either branch, beside commits in both
\* working trees.
NextLifecycle ==
    \/ RecordPromptHooks({1}, {"S1"}, NamedRepos, {1})
    \/ PostToolHooks({1}, {"S1"}, {"/r"}, Branches)
    \/ GitCommit(Repos, {"message"}, {<<>>})

SpecLifecycle == Init /\ [][NextLifecycle]_vars

\* stdin of the write observer: the tool, the session_id (present or not)
\* and the file_path of the tool_input (present or not)
ToolEvents ==
    {[tool_name |-> t, session_id |-> sid, file_path |-> f] :
        t \in {"Write", "NotebookEdit", "Read", "Bash"}, sid \in {"S1", ""},
        f \in {"/x/b.py", "/r/a.py", ""}}

ObserverEvents(PP, EE, BB) ==
    \/ ServerStart
    \/ \E p \in PP, data \in EE : PtReturn(p, data)
    \/ \E p \in PP, data \in EE :
          Observed(data) /\ PtIgnore(p, data.session_id, _get_repo_root(data.file_path))
    \/ \E p \in PP, data \in EE :
          Observed(data) /\ PtSession(p, data.session_id, _get_repo_root(data.file_path))
    \/ \E p \in PP : PtPrompt(p)
    \/ \E p \in PP, branch \in BB : PtInsert(p, branch)
    \/ \E p \in PP : PtExit(p)

\* Events: two write observers fed events of tracked and of other tools,
\* beside a prompt hook of the session in /r.
NextEvents ==
    \/ RecordPromptHooks({1}, {"S1"}, {i \in RepoInfos : i.repo = "/r"}, {1})
    \/ ObserverEvents({1, 2}, ToolEvents, {"main"})

SpecEvents == Init /\ [][NextEvents]_vars

\* what git lists as changed: no file, one, .. , MaxFiles files
AllFileLists == {FilesOf(k) : k \in 0..MaxFiles}

\* A store that holds no prompt, or one uncommitted prompt of /r.
InitFiles == InitFormat /\ nextId <= 2 /\ clock <= 1

\* Files: `git commit` and the PR rollup in /r, for every number of changed
\* files up to MaxFiles.
NextFiles ==
    \/ GitCommit({"/r"}, {"message"}, AllFileLists)
    \/ \E hashes \in {CreatedHashes} : PrCommitted("/r", hashes)
    \/ PrUncommitted
    \/ \E files_changed \in AllFileLists : PrCrossRepo(files_changed)
    \/ ToolReturn

SpecFiles == InitFiles /\ [][NextFiles]_vars

\* Hashes: prompts of /r are marked by the post-commit hook, whose `git
\* rev-parse HEAD` may fail, and by the mark_committed tool, called with a
\* hash or without one.
NextHash ==
    \/ RecordPromptHooks({1}, {"S1"}, {i \in RepoInfos : i.repo = "/r"}, {1})
    \/ GitCommit({"/r"}, {"message"}, {<<>>})
    \/ GitCreateNoHead
    \/ ServerStart
    \/ \E commit_hash \in {"", "h0"}, head \in {""} \cup {HashOf(n) : n \in {commits} \ {0}} :
          handle_mark_committed("/r", commit_hash, head)
    \/ ToolReturn

SpecHash == Init /\ [][NextHash]_vars

\* Sessions: two prompt hooks of any session and directory.
NextSession == RecordPromptHooks({1, 2}, SessionIds, RepoInfos, {0, 1})

SpecSession == Init /\ [][NextSession]_vars


\* ------------------------------------------------------------- properties
\* the steps of the processes, told by what they change
RecordStep   == rp' # rp                                    \* prompt hook
LinkStep     == pt' # pt                                    \* write observer
PrepareStep  == git.pc # "prepared" /\ git'.pc = "prepared" \* cmd_prepare_commit_msg
AbortStep    == git.pc = "prepared" /\ git'.pc = "aborted"
CreateStep   == git.pc = "prepared" /\ git'.pc = "created"
MarkStep     == git.pc = "created" /\ git'.pc = "marked"    \* cmd_post_commit
ToolReadStep == tool' # tool /\ tool'.pc # "idle"           \* a query of a tool

Eligible(p, repo) == p.repo_path = repo /\ p.committed = 0
RowOf(P, id) == CHOOSE p \in P : p.prompt_id = id
Sorted(rows) == \A i, j \in DOMAIN rows : i < j => rows[i].timestamp <= rows[j].timestamp
SeqIds(rows) == {rows[i].prompt_id : i \in DOMAIN rows}

\* C1: in every state every prompt has committed = 1 exactly when its
\* commit_hash is not NULL, and every prompt a step adds is uncommitted with
\* a NULL commit_hash.
C1_CommittedIffHash ==
    /\ [](\A p \in prompts : (p.committed = 1) <=> (p.commit_hash # NULL))
    /\ [][\A p \in prompts' : p.prompt_id \notin Ids(prompts)
              => p.committed = 0 /\ p.commit_hash = NULL]_vars

\* a committed, an uncommitted and a cross-linked prompt side by side
C1_Witness ==
    /\ \E p, q \in prompts : p.committed = 1 /\ p.commit_hash = "h1" /\ q.committed = 0
    /\ prompt_repos # {}

\* C2: a committed prompt stays committed, with the same hash, in every step.
C2_CommittedForever ==
    [][\A p \in prompts : p.committed = 1 =>
          \E q \in prompts' : /\ q.prompt_id = p.prompt_id
                              /\ q.committed = 1
                              /\ q.commit_hash = p.commit_hash]_vars

\* a second mark_committed of the same repository, with another hash, has
\* marked later prompts and left the earlier ones with the first hash
C2_Witness ==
    /\ git.pc = "marked" /\ git.count > 0
    /\ \E p \in prompts : /\ p.repo_path = git.repo
                          /\ p.committed = 1
                          /\ p.commit_hash # git.hash

\* C3: a mark_committed(repo, h) that finds the store unlocked sets
\* committed = 1 and commit_hash = h on exactly the uncommitted prompts of
\* repo, changes no other prompt, returns their number, and leaves
\* uncommitted_prompts(repo) empty.
C3_MarkCommitted ==
    [][(MarkStep /\ ~locked) =>
          /\ Ids(prompts') = Ids(prompts)
          /\ Cardinality(prompts') = Cardinality(prompts)
          /\ \A p \in prompts :
                IF Eligible(p, git.repo)
                THEN RowOf(prompts', p.prompt_id) =
                        [p EXCEPT !.committed = 1, !.commit_hash = git.hash]
                ELSE p \in prompts'
          /\ git'.count = Cardinality({p \in prompts : Eligible(p, git.repo)})
          /\ get_uncommitted_prompts(git.repo)' = {<<>>}]_vars

\* scenario A: three prompts of /r, marked by one call that returned 3
C3_Witness ==
    /\ git.pc = "marked" /\ git.repo = "/r" /\ git.count = 3
    /\ Cardinality({p \in prompts : p.repo_path = "/r" /\ p.commit_hash = git.hash}) = 3

\* C4: a mark_committed that finds no uncommitted prompt of its repository
\* returns 0 and changes no row, and every mark_committed that finds the
\* store unlocked leaves no uncommitted prompt of its repository: the call
\* that follows it at once is such a call.
C4_MarkIdempotent ==
    [][MarkStep =>
          /\ ({p \in prompts : Eligible(p, git.repo)} = {}
                => git'.count = 0 /\ prompts' = prompts)
          /\ (~locked => {p \in prompts' : Eligible(p, git.repo)} = {})]_vars

\* a call that returned 0 for a repository whose prompts an earlier call marked
C4_Witness ==
    /\ git.pc = "marked" /\ git.count = 0 /\ ~locked
    /\ \E p \in prompts : p.repo_path = git.repo /\ p.committed = 1 /\ p.commit_hash # git.hash
    /\ \A p \in prompts : p.repo_path = git.repo => p.committed = 1

\* C5: in every state the prompts of a mark_committed batch carry the hash
\* of the call, all of them, and no query returns a prompt of a batch.
C5_MarkAtomic ==
    [][/\ \A b \in batches' : \A p \in prompts' :
              p.prompt_id \in b.ids => p.committed = 1 /\ p.commit_hash = b.hash
       /\ ToolReadStep => \A b \in batches :
              tool'.op = "generate_commit_context" => b.ids \cap SeqIds(tool'.rows) = {}
       /\ PrepareStep => \A b \in batches : b.ids \cap SeqIds(git'.block) = {}]_vars

\* a query has returned prompts after a batch of two was marked
C5_Witness ==
    /\ tool.pc = "done" /\ tool.op = "generate_commit_context" /\ tool.rows # <<>>
    /\ \E b \in batches : Cardinality(b.ids) >= 2

\* C6: in a run of `git commit` only the post-commit step changes a prompt;
\* while the run stands aborted every prompt of its block is still an
\* uncommitted prompt of the repository.
C6_OnlyPostCommitMarks ==
    /\ [][/\ (PrepareStep \/ AbortStep \/ CreateStep) => prompts' = prompts
          /\ (git' # git /\ prompts' # prompts) => MarkStep]_vars
    /\ [](git.pc = "aborted" =>
            SeqIds(git.block) \subseteq Ids({p \in prompts : Eligible(p, git.repo)}))

\* an aborted commit whose message carried two prompts
C6_Witness == git.pc = "aborted" /\ Len(git.block) = 2


\* C7: in every state uncommitted_prompts(repo) returns each uncommitted
\* prompt of repo once, no committed prompt and no prompt of another
\* repository, in non-decreasing order of timestamp.
C7_UncommittedPrompts ==
    \A repo \in Repos \cup {""} : \A rows \in get_uncommitted_prompts(repo) :
        /\ SeqIds(rows) = {p.prompt_id : p \in {q \in prompts : q.repo_path = repo /\ q.committed = 0}}
        /\ \A i, j \in DOMAIN rows : rows[i].prompt_id = rows[j].prompt_id => i = j
        /\ \A i \in DOMAIN rows : rows[i].repo_path = repo /\ rows[i].committed = 0
        /\ Sorted(rows)

\* the message of a commit of /r was prepared from two prompts, the first
\* of them written to the store after the second, beside a committed prompt
\* of /r and a prompt of /x
C7_Witness ==
    /\ git.pc = "prepared" /\ git.repo = "/r" /\ Len(git.block) = 2
    /\ git.block[1].timestamp < git.block[2].timestamp
    /\ git.block[1].prompt_id > git.block[2].prompt_id
    /\ \E p \in prompts : p.repo_path = "/x" \/ p.committed = 1

\* C8: the steps of the formatters and queries (prepare-commit-msg, the
\* generate_commit_context tool, the three queries of build_pr_body) change
\* no session, no prompt and no cross-repo link.
C8_ReadsArePure ==
    [][(PrepareStep \/ tool' # tool) =>
          /\ sessions' = sessions
          /\ prompts' = prompts
          /\ prompt_repos' = prompt_repos]_vars

\* a PR rollup of /r has merged a committed prompt, an uncommitted prompt
\* and a prompt of /x that is linked to /r
C8_Witness ==
    /\ tool.pc = "done" /\ tool.op = "build_pr_body"
    /\ \E i, j, k \in DOMAIN tool.rows :
          /\ tool.rows[i].committed = 1
          /\ tool.rows[j].committed = 0 /\ tool.rows[j].repo_path = "/r"
          /\ tool.rows[k].repo_path = "/x"

\* C9: a step of the prompt hook keeps every stored prompt as it is and
\* changes no link; a step of the write observer changes no session and no
\* prompt; the post-commit step changes no session and no link; and a step
\* after which a prompt is committed that was not before is a post-commit step.
C9_MutationPartition ==
    [][/\ RecordStep => prompts \subseteq prompts' /\ prompt_repos' = prompt_repos
       /\ LinkStep => sessions' = sessions /\ prompts' = prompts
       /\ MarkStep => sessions' = sessions /\ prompt_repos' = prompt_repos
       /\ (\E q \in prompts' : q.committed = 1 /\ q \notin prompts) => MarkStep]_vars

\* the three kinds of step have all written: two prompts, one of them
\* committed, and a link
C9_Witness ==
    /\ Cardinality(prompts) >= 2
    /\ \E p \in prompts : p.committed = 1
    /\ \E l \in prompt_repos : \E p \in prompts : p.prompt_id = l.prompt_id /\ p.committed = 0

\* C10: no two session rows share a session_id; the write of a prompt hook
\* leaves the row of its session with last_active = its own clock reading,
\* with the stored repo_path (branch_name) when its own is empty, and with
\* its own repo_path when the stored one is empty.
C10_SessionUpsert ==
    /\ [](\A s, t \in sessions : s.session_id = t.session_id => s = t)
    /\ [][\A p \in Procs : (rp[p].pc = "ready" /\ rp'[p].pc = "idle") =>
            \E s \in sessions' :
               /\ s.session_id = rp[p].session_id
               /\ s.last_active = rp[p].now
               /\ \A old \in sessions : old.session_id = rp[p].session_id =>
                     /\ rp[p].repo = "" => s.repo_path = old.repo_path
                     /\ rp[p].branch = "" => s.branch_name = old.branch_name
                     /\ old.repo_path = "" => s.repo_path = rp[p].repo]_vars

\* scenario D: a session first touched with repo_path "" and then with "/x"
\* holds repo_path "/x" and the later call's timestamp
C10_Witness ==
    \E s \in sessions : \E p, q \in prompts :
        /\ p.session_id = s.session_id /\ q.session_id = s.session_id
        /\ p.repo_path = "" /\ p.timestamp = s.started_at
        /\ q.repo_path = "/x" /\ q.timestamp = s.last_active
        /\ s.started_at < s.last_active
        /\ s.repo_path = "/x"
        /\ Cardinality(sessions) = 2

\* the write of prompt hook p (its transaction commits in this step)
RpWriteStep(p) == rp[p].pc = "ready" /\ rp'[p].pc = "idle"

C12_LastActiveNeverDecreases ==
    [][\A s \in sessions : \A t \in sessions' :
          s.session_id = t.session_id => s.last_active <= t.last_active]_vars

\* C13: in every state prompts_for_session(sid) returns each prompt of the
\* session once and no other prompt, in non-decreasing order of timestamp;
\* no two prompts share a prompt_id; every prompt keeps its prompt_id, its
\* session and its timestamp in every step, mark_committed included, so the
\* prompts a summary has returned are still stored under the ids it showed.
C13_SessionPrompts ==
    /\ [](/\ \A sid \in SessionIds : \A rows \in db_get_session_prompts(sid) :
               /\ SeqIds(rows) = Ids({q \in prompts : q.session_id = sid})
               /\ \A i, j \in DOMAIN rows : rows[i].prompt_id = rows[j].prompt_id => i = j
               /\ \A i \in DOMAIN rows : rows[i].session_id = sid /\ rows[i] \in prompts
               /\ Sorted(rows)
          /\ \A p, q \in prompts : p.prompt_id = q.prompt_id => p = q
          /\ (tool.pc = "done" /\ tool.op = "get_session_summary") =>
                /\ Sorted(tool.rows)
                /\ \A i \in DOMAIN tool.rows : \E q \in prompts :
                      /\ q.prompt_id = tool.rows[i].prompt_id
                      /\ q.session_id = tool.rows[i].session_id
                      /\ q.timestamp = tool.rows[i].timestamp)
    /\ [][\A p \in prompts : \E q \in prompts' :
             /\ q.prompt_id = p.prompt_id
             /\ q.session_id = p.session_id
             /\ q.timestamp = p.timestamp
             /\ q.prompt_text = p.prompt_text]_vars

\* a summary of a session has returned two prompts, the older of them
\* written to the store after the newer and one of them committed since,
\* while the other session holds a prompt too
C13_Witness ==
    /\ tool.pc = "done" /\ tool.op = "get_session_summary" /\ Len(tool.rows) = 2
    /\ tool.rows[1].prompt_id > tool.rows[2].prompt_id
    /\ tool.rows[1].timestamp < tool.rows[2].timestamp
    /\ \E q \in prompts : q.session_id = tool.rows[1].session_id /\ q.committed = 1
    /\ \E q \in prompts : q.session_id # tool.rows[1].session_id

\* the steps of write observer p
PtStartStep(p)  == pt[p].pc = "idle" /\ pt'[p].pc # "idle"
PtPromptStep(p) == pt[p].pc = "sess" /\ pt'[p].pc # "sess"
PtInsertStep(p) == pt[p].pc = "prompt" /\ pt'[p].pc = "exit"

\* C14: no two links share (prompt_id, repo_path); an insert keeps every
\* link there is, and an insert of a pair that is linked already changes
\* nothing, the branch_name of the first insert included, and ends without
\* an error.
C14_LinkIdempotent ==
    /\ [](\A l, m \in prompt_repos :
             (l.prompt_id = m.prompt_id /\ l.repo_path = m.repo_path) => l = m)
    /\ [][\A p \in Procs : PtInsertStep(p) =>
             /\ prompt_repos \subseteq prompt_repos'
             /\ (\E l \in prompt_repos : /\ l.prompt_id = pt[p].prompt_id
                                         /\ l.repo_path = pt[p].file_repo) =>
                   /\ prompt_repos' = prompt_repos
                   /\ (schema = "full" /\ ~locked) => pt'[p].outcome = "present"]_vars

\* two concurrent observers have inserted the same pair: the first created
\* the link, the second found it
C14_Witness ==
    /\ pt[1].pc = "exit" /\ pt[2].pc = "exit"
    /\ pt[1].outcome = "linked" /\ pt[2].outcome = "present"
    /\ pt[1].prompt_id = pt[2].prompt_id /\ pt[1].file_repo = pt[2].file_repo
    /\ Cardinality(prompt_repos) = 1

\* C15: in every state no link names the repository of its own prompt.
C15_NoLinkToOwnRepo ==
    \A l \in prompt_repos : \A q \in prompts :
        q.prompt_id = l.prompt_id => q.repo_path # l.repo_path

\* C16: the observer picks a prompt of its session with the greatest
\* timestamp, its insert adds the link of that prompt to the written
\* repository and no other link, and after the insert cross_repo_prompts of
\* the written repository returns that prompt.
C16_LinkLatestPrompt ==
    [][\A p \in Procs :
          /\ (PtPromptStep(p) /\ pt'[p].pc = "prompt") =>
                \E q \in prompts :
                   /\ q.prompt_id = pt'[p].prompt_id
                   /\ q.session_id = pt[p].session_id
                   /\ \A o \in prompts : o.session_id = q.session_id => o.timestamp <= q.timestamp
          /\ PtInsertStep(p) =>
                /\ \A l \in prompt_repos' \ prompt_repos :
                      l.prompt_id = pt[p].prompt_id /\ l.repo_path = pt[p].file_repo
                /\ pt'[p].outcome \in {"linked", "present"} =>
                      \A rows \in db_get_cross_repo_prompts(pt[p].file_repo)' :
                          pt[p].prompt_id \in SeqIds(rows)]_vars

\* C17: an observer started for a session without a row, and an observer
\* that finds no prompt of its session, ends at once as ignored, and no
\* step that ends an observer as ignored changes a session, a prompt or a link.
C17_UnknownSessionIgnored ==
    [][\A p \in Procs :
          /\ (PtStartStep(p) /\ \A t \in sessions : t.session_id # pt'[p].session_id) =>
                pt'[p].pc = "exit" /\ pt'[p].outcome = "ignored"
          /\ (PtPromptStep(p) /\ \A q \in prompts : q.session_id # pt[p].session_id) =>
                pt'[p].pc = "exit" /\ pt'[p].outcome = "ignored"
          /\ (pt'[p] # pt[p] /\ pt'[p].pc = "exit" /\ pt'[p].outcome = "ignored") =>
                /\ sessions' = sessions
                /\ prompts' = prompts
                /\ prompt_repos' = prompt_repos]_vars

\* a write of a session without a row was ignored while the store held the
\* prompts and a link of the other session
C17_Witness ==
    \E p \in Procs :
        /\ pt[p].pc = "exit" /\ pt[p].outcome = "ignored" /\ pt[p].file_repo # ""
        /\ \A t \in sessions : t.session_id # pt[p].session_id
        /\ prompts # {} /\ prompt_repos # {}

\* the lines of a rendered block by their kind
LinesOfKind(msg, kind) == {i \in DOMAIN msg : msg[i].kind = kind}
RenderedVerbose(msg) ==
    /\ LinesOfKind(msg, "prompt") # {}
    /\ LinesOfKind(msg, "summary") \cup LinesOfKind(msg, "first")
          \cup LinesOfKind(msg, "last") \cup LinesOfKind(msg, "pointer") = {}
RenderedCondensed(msg) ==
    /\ LinesOfKind(msg, "summary") # {}
    /\ LinesOfKind(msg, "first") # {} /\ LinesOfKind(msg, "last") # {}
    /\ LinesOfKind(msg, "prompt") = {}
\* text as displayed in `width` characters: whole, or cut with an ellipsis
Displays(shown, text, width) ==
    IF Len(text) <= width THEN shown = text
    ELSE /\ Len(shown) = width
         /\ SubSeq(shown, 1, width - 3) = SubSeq(text, 1, width - 3)
         /\ SubSeq(shown, width - 2, width) = "..."
\* the session line a prompt line stands under
HeaderOf(msg, i) ==
    {j \in LinesOfKind(msg, "session") :
        j < i /\ \A k \in LinesOfKind(msg, "session") : k < i => k <= j}

\* C18: a block prepared for n >= 1 uncommitted prompts under a threshold
\* t >= 1 is verbose exactly when n <= t and condensed exactly when n > t.
C18_ModeByThreshold ==
    [][(PrepareStep /\ git'.block # <<>>) =>
          LET n == Cardinality(WhereUncommitted(prompts, git'.repo))
              t == _load_threshold IN
          (n >= 1 /\ t >= 1) =>
              /\ RenderedVerbose(git'.msg) <=> n <= t
              /\ RenderedCondensed(git'.msg) <=> n > t]_vars

\* six prompts under the default threshold 5 were rendered condensed
C18_Witness ==
    /\ git.pc = "prepared" /\ config = <<>> /\ _load_threshold = 5
    /\ Len(git.block) = 6 /\ RenderedCondensed(git.msg)

\* C19: a condensed block has one summary line with the number of
\* uncommitted prompts and of their sessions, one line per session with the
\* number of its prompts, one "First:" line with the text of the prompt of
\* the least timestamp and one "Last:" line with that of the greatest, each
\* displayed in 80 characters, and no other line with a prompt text.
C19_Condensed ==
    [][(PrepareStep /\ RenderedCondensed(git'.msg)) =>
          LET msg  == git'.msg
              U    == WhereUncommitted(prompts, git'.repo)
              sids == {p.session_id : p \in U} IN
          /\ \E i \in DOMAIN msg : /\ LinesOfKind(msg, "summary") = {i}
                                   /\ msg[i].total = Cardinality(U)
                                   /\ msg[i].sessions = Cardinality(sids)
          /\ Cardinality(LinesOfKind(msg, "session")) = Cardinality(sids)
          /\ \A sid \in sids : \E j \in LinesOfKind(msg, "session") :
                /\ msg[j].id = ShortId(sid)
                /\ msg[j].n = Cardinality({p \in U : p.session_id = sid})
          /\ \E i \in DOMAIN msg : \E p \in U :
                /\ LinesOfKind(msg, "first") = {i}
                /\ \A q \in U : p.timestamp <= q.timestamp
                /\ msg[i].prompt_id = p.prompt_id
                /\ Displays(msg[i].text, p.prompt_text, 80)
          /\ \E i \in DOMAIN msg : \E p \in U :
                /\ LinesOfKind(msg, "last") = {i}
                /\ \A q \in U : q.timestamp <= p.timestamp
                /\ msg[i].prompt_id = p.prompt_id
                /\ Displays(msg[i].text, p.prompt_text, 80)
          /\ \A i \in DOMAIN msg :
                "text" \in DOMAIN msg[i] => msg[i].kind \in {"first", "last"}]_vars

\* scenario B: six prompts of two sessions under threshold 5, the first of
\* them shown cut to 80 characters
C19_Witness ==
    /\ git.pc = "prepared" /\ _load_threshold = 5 /\ Len(git.block) = 6
    /\ \E i \in LinesOfKind(git.msg, "summary") :
          git.msg[i].total = 6 /\ git.msg[i].sessions = 2
    /\ \E i \in LinesOfKind(git.msg, "first") :
          Len(git.msg[i].text) = 80 /\ Len(git.block[1].prompt_text) > 80
    /\ \E i \in LinesOfKind(git.msg, "last") : git.msg[i].prompt_id = 6

\* C20: in a verbose block every uncommitted prompt of the repository has
\* exactly one prompt line, that line stands under the header of the
\* prompt's session, and the count of every header is the number of prompt
\* lines under it.
C20_Verbose ==
    [][(PrepareStep /\ RenderedVerbose(git'.msg)) =>
          LET msg == git'.msg
              U   == WhereUncommitted(prompts, git'.repo) IN
          /\ \A p \in U :
                Cardinality({i \in LinesOfKind(msg, "prompt") :
                                msg[i].prompt_id = p.prompt_id}) = 1
          /\ \A i \in LinesOfKind(msg, "prompt") : \E p \in U :
                /\ p.prompt_id = msg[i].prompt_id
                /\ Displays(msg[i].text, p.prompt_text, 90)
                /\ \E j \in HeaderOf(msg, i) : msg[j].id = ShortId(p.session_id)
          /\ \A j \in LinesOfKind(msg, "session") :
                msg[j].n = Cardinality({i \in LinesOfKind(msg, "prompt") :
                                           j \in HeaderOf(msg, i)})]_vars

\* five prompts of two sessions, interleaved, rendered verbose under the
\* default threshold: two headers, one of them over three prompt lines
C20_Witness ==
    /\ git.pc = "prepared" /\ config = <<>> /\ Len(git.block) = 5
    /\ Cardinality(LinesOfKind(git.msg, "prompt")) = 5
    /\ Cardinality(LinesOfKind(git.msg, "session")) = 2
    /\ \E j \in LinesOfKind(git.msg, "session") : git.msg[j].n = 3
    /\ git.block[1].session_id # git.block[2].session_id
    /\ git.block[1].session_id = git.block[3].session_id

\* the least timestamp of the prompts of session sid in U
OldestOf(U, sid) ==
    CHOOSE t \in {p.timestamp : p \in {q \in U : q.session_id = sid}} :
        \A p \in U : p.session_id = sid => t <= p.timestamp

\* C21: in a prepared block the session lines are numbered 1, 2, .. from
\* the top, a session stands above every session whose oldest prompt is
\* younger, line 1 is the session of the oldest uncommitted prompt, and the
\* prompt lines under one header are in non-decreasing order of timestamp.
C21_GroupOrder ==
    [][(PrepareStep /\ git'.block # <<>>) =>
          LET msg == git'.msg
              U   == WhereUncommitted(prompts, git'.repo)
              H   == LinesOfKind(msg, "session") IN
          /\ \A j \in H : msg[j].idx = Cardinality({k \in H : k <= j})
          /\ \A j, k \in H : j < k =>
                \E sj, sk \in {p.session_id : p \in U} :
                   /\ msg[j].id = ShortId(sj) /\ msg[k].id = ShortId(sk)
                   /\ sj # sk
                   /\ OldestOf(U, sj) <= OldestOf(U, sk)
          /\ \E j \in H : \E p \in U :
                /\ msg[j].idx = 1
                /\ \A q \in U : p.timestamp <= q.timestamp
                /\ msg[j].id = ShortId(p.session_id)
          /\ \A i, k \in LinesOfKind(msg, "prompt") :
                (i < k /\ HeaderOf(msg, i) = HeaderOf(msg, k)) =>
                   RowOf(prompts, msg[i].prompt_id).timestamp
                      <= RowOf(prompts, msg[k].prompt_id).timestamp]_vars

\* four prompts, of S2, S1, S2, S1 in this order of time, rendered verbose:
\* session 1 is S2 and holds the first and the third prompt
C21_Witness ==
    /\ git.pc = "prepared" /\ Len(git.block) = 4 /\ RenderedVerbose(git.msg)
    /\ git.block[1].session_id = "S2" /\ git.block[2].session_id = "S1"
    /\ git.block[3].session_id = "S2" /\ git.block[4].session_id = "S1"
    /\ \E j \in LinesOfKind(git.msg, "session") :
          /\ git.msg[j].idx = 1 /\ git.msg[j].id = "S2"
          /\ git.msg[j + 1].prompt_id = 1 /\ git.msg[j + 2].prompt_id = 3

\* a call of the generate_commit_context tool has returned in this step
ContextStep == tool.pc = "idle" /\ tool'.pc = "done" /\ tool'.op = "generate_commit_context"

\* C22: for a repository without uncommitted prompt the prepare-commit-msg
\* step reads an empty block and appends nothing to the commit message, and
\* the generate_commit_context tool returns the base message, if one was
\* given, then the line "No AI prompts tracked for this commit." and no
\* session or prompt line.
C22_NoPrompts ==
    [][/\ (PrepareStep /\ WhereUncommitted(prompts, git'.repo) = {}) =>
             git'.block = <<>> /\ git'.msg = <<>>
       /\ (ContextStep /\ WhereUncommitted(prompts, tool'.repo) = {}) =>
             LET text == tool'.text
                 at   == IF tool'.base = "" THEN 1 ELSE 3 IN
             /\ tool'.base # "" => text[1] = [kind |-> "base", text |-> tool'.base]
             /\ LinesOfKind(text, "none") = {at}
             /\ LinesOfKind(text, "base") = (IF tool'.base = "" THEN {} ELSE {1})
             /\ LinesOfKind(text, "session") \cup LinesOfKind(text, "prompt")
                   \cup LinesOfKind(text, "title") \cup LinesOfKind(text, "files") = {}
             /\ \A i \in LinesOfKind(text, "footer") : text[i].total = 0]_vars

\* after a commit that marked every prompt of /r a second commit's message
\* got no block, and the tool returned the base message and the marker
C22_Witness ==
    /\ git.pc = "prepared" /\ git.msg = <<>> /\ commits = 1
    /\ prompts # {} /\ \A p \in prompts : p.committed = 1
    /\ tool.pc = "done" /\ tool.op = "generate_commit_context"
    /\ tool.base # "" /\ tool.text[1].kind = "base" /\ tool.text[3].kind = "none"

\* C23: for the prompts it read and the threshold in force, the text of the
\* generate_commit_context tool is in the mode build_provenance_block
\* renders for them: verbose exactly when the block is verbose, condensed
\* exactly when the block is condensed, and with more prompts than the
\* threshold it shows no prompt text but the first and the last.
C23_ToolSameMode ==
    [][(ContextStep /\ tool'.rows # <<>>) =>
          LET text  == tool'.text
              block == ProvenanceLines(tool'.rows, <<>>, _load_threshold) IN
          /\ RenderedVerbose(text) <=> RenderedVerbose(block)
          /\ RenderedCondensed(text) <=> RenderedCondensed(block)
          /\ Len(tool'.rows) > _load_threshold =>
                \A i \in LinesOfKind(text, "prompt") :
                   text[i].prompt_id \in {tool'.rows[1].prompt_id,
                                          tool'.rows[Len(tool'.rows)].prompt_id}]_vars

\* the steps of build_pr_body: its three queries, the last with the merge
PrFirstStep  == tool.pc = "idle" /\ tool'.pc = "pr_committed"
PrSecondStep == tool.pc = "pr_committed" /\ tool'.pc = "pr_uncommitted"
PrMergeStep  == tool.pc = "pr_uncommitted" /\ tool'.pc = "done"

\* C24: the rollup reads prompts_for_commits of its range, then
\* uncommitted_prompts and cross_repo_prompts of its repository; the merged
\* list holds every prompt_id of the three lists read and no other, each
\* once, and the body has one prompt line for each and counts them so.
C24_RollupDedup ==
    [][/\ PrFirstStep => \E hashes \in SUBSET CreatedHashes :
                             tool'.rows \in db_get_prompts_for_commits(hashes)
       /\ PrSecondStep => \E q \in db_get_uncommitted_prompts(tool.repo) :
                              tool'.rows = tool.rows \o q
       /\ PrMergeStep =>
             LET merged == tool'.rows
                 read   == tool'.read
                 text   == tool'.text IN
             /\ \E q \in db_get_cross_repo_prompts(tool.repo) : read = tool.rows \o q
             /\ SeqIds(merged) = SeqIds(read)
             /\ \A i, j \in DOMAIN merged : merged[i].prompt_id = merged[j].prompt_id => i = j
             /\ \A id \in SeqIds(read) :
                   Cardinality({i \in LinesOfKind(text, "prompt") : text[i].prompt_id = id}) = 1
             /\ Cardinality(LinesOfKind(text, "prompt")) = Cardinality(SeqIds(read))
             /\ \A i \in LinesOfKind(text, "counts") :
                   text[i].prompts = Cardinality(SeqIds(read))]_vars

\* a rollup of /r has merged three prompts out of four rows read: a prompt
\* of /x that is committed in the range and linked to /r was returned by
\* two queries, beside an uncommitted prompt of /r
C24_Witness ==
    /\ tool.pc = "done" /\ tool.op = "build_pr_body"
    /\ Len(tool.read) = 4 /\ Len(tool.rows) = 3
    /\ \E i, j \in DOMAIN tool.read :
          /\ i < j /\ tool.read[i].prompt_id = tool.read[j].prompt_id
          /\ tool.read[i].committed = 1 /\ tool.read[i].repo_path = "/x"
          /\ \E l \in prompt_repos : SameLink(l, tool.read[i].prompt_id, "/r")
    /\ \E k \in DOMAIN tool.rows : tool.rows[k].committed = 0 /\ tool.rows[k].repo_path = "/r"

\* the rows of a list, as a set
RowsOf(rows) == {rows[i] : i \in DOMAIN rows}

\* C25: the merged list of the rollup is in non-decreasing order of
\* timestamp; in the body the session lines are numbered 1, 2, .. from the
\* top, a session stands above every session whose oldest merged prompt is
\* younger, and the prompt lines under one header are in non-decreasing
\* order of timestamp.
C25_RollupOrder ==
    [][PrMergeStep =>
          LET merged == tool'.rows
              text   == tool'.text
              U      == RowsOf(merged)
              H      == LinesOfKind(text, "session")
              TimeOf(id) == (CHOOSE r \in U : r.prompt_id = id).timestamp IN
          /\ Sorted(merged)
          /\ \A j \in H : text[j].idx = Cardinality({k \in H : k <= j})
          /\ \A j, k \in H : j < k =>
                \E sj, sk \in {r.session_id : r \in U} :
                   /\ text[j].id = ShortId(sj) /\ text[k].id = ShortId(sk)
                   /\ sj # sk
                   /\ OldestOf(U, sj) <= OldestOf(U, sk)
          /\ Cardinality(H) = Cardinality({r.session_id : r \in U})
          /\ \A i, k \in LinesOfKind(text, "prompt") :
                (i < k /\ HeaderOf(text, i) = HeaderOf(text, k)) =>
                   TimeOf(text[i].prompt_id) <= TimeOf(text[k].prompt_id)]_vars

\* a rollup has merged three prompts that the queries returned out of
\* order of time, of two sessions interleaved: the oldest, of S2, and the
\* youngest stand under session 1
C25_Witness ==
    /\ tool.pc = "done" /\ tool.op = "build_pr_body" /\ Len(tool.rows) = 3
    /\ ~Sorted(tool.read)
    /\ tool.rows[1].session_id = "S2" /\ tool.rows[2].session_id = "S1"
    /\ tool.rows[3].session_id = "S2"
    /\ \E j \in LinesOfKind(tool.text, "session") :
          /\ tool.text[j].idx = 1 /\ tool.text[j].id = "S2"
          /\ tool.text[j + 1].prompt_id = tool.rows[1].prompt_id
          /\ tool.text[j + 2].prompt_id = tool.rows[3].prompt_id

\* C26: the body of a rollup that merged prompts is never condensed,
\* whatever their number and the threshold: it has no summary, "First:" or
\* "Last:" line, and every merged prompt has a line of its own, displayed
\* in 120 characters, under the header of its session.
C26_RollupNeverCondenses ==
    [][(PrMergeStep /\ tool'.rows # <<>>) =>
          LET merged == tool'.rows
              text   == tool'.text IN
          /\ RenderedVerbose(text)
          /\ ~RenderedCondensed(text)
          /\ \A r \in RowsOf(merged) : \E i \in LinesOfKind(text, "prompt") :
                /\ text[i].prompt_id = r.prompt_id
                /\ Displays(text[i].text, r.prompt_text, 120)
                /\ \E j \in HeaderOf(text, i) : text[j].id = ShortId(r.session_id)
                /\ \A k \in LinesOfKind(text, "prompt") :
                      text[k].prompt_id = r.prompt_id => k = i]_vars

\* six prompts under the default threshold 5: the message of their commit
\* was condensed, the body of the rollup over that commit lists the six
C26_Witness ==
    /\ tool.pc = "done" /\ tool.op = "build_pr_body"
    /\ config = <<>> /\ _load_threshold = 5
    /\ Len(tool.rows) = 6 /\ Cardinality(LinesOfKind(tool.text, "prompt")) = 6
    /\ \A i \in DOMAIN tool.rows : tool.rows[i].committed = 1
    /\ git.pc = "marked" /\ git.count = 6 /\ RenderedCondensed(git.msg)

\* a step that changes no row of the store
StoreUnchanged ==
    /\ sessions' = sessions
    /\ prompts' = prompts
    /\ prompt_repos' = prompt_repos

\* C27: a prompt hook that finds the store locked ends (its process is idle
\* again) and writes neither a session nor a prompt; an observer that finds
\* no store ends as ignored, and one whose insert fails (no table
\* prompt_repos, or the store locked) ends as failed, both without a change;
\* prepare-commit-msg without a store reads the empty block and changes
\* nothing; post-commit without a store or under a lock ends with count 0
\* and changes nothing.
C27_HooksFailOpen ==
    [][/\ \A p \in Procs :
             /\ (rp[p].pc = "ready" /\ rp'[p] # rp[p] /\ locked) =>
                   rp'[p] = RpIdle /\ StoreUnchanged
             /\ (PtStartStep(p) /\ schema = "none") =>
                   pt'[p].pc = "exit" /\ pt'[p].outcome = "ignored" /\ StoreUnchanged
             /\ (pt[p].pc = "prompt" /\ pt'[p] # pt[p] /\ (schema # "full" \/ locked)) =>
                   pt'[p].pc = "exit" /\ pt'[p].outcome = "failed" /\ StoreUnchanged
       /\ PrepareStep => StoreUnchanged
       /\ (PrepareStep /\ schema = "none") => git'.block = <<>> /\ git'.msg = <<>>
       /\ (git.pc = "created" /\ git' # git /\ (schema = "none" \/ locked)) =>
             git'.pc = "marked" /\ git'.count = 0 /\ StoreUnchanged]_vars

\* under a held lock a prompt hook has read the clock and ended without a
\* prompt of that time, an observer's insert has failed, and post-commit
\* has ended with count 0 while the prompts of its block are uncommitted
C27_Witness ==
    /\ locked
    /\ rp[1].pc = "idle" /\ clock > 0 /\ \A q \in prompts : q.timestamp < clock
    /\ pt[1].pc = "exit" /\ pt[1].outcome = "failed" /\ schema = "full"
    /\ git.pc = "marked" /\ git.count = 0 /\ git.block # <<>>
    /\ \A i \in DOMAIN git.block : \E q \in prompts :
          q.prompt_id = git.block[i].prompt_id /\ q.committed = 0

\* C28: a prompt hook that has read its input ends, an observer that has
\* read its session ends, and a post-commit hook whose commit was created
\* ends, whether or not the write lock is ever released.
C28_HooksTerminate ==
    /\ \A p \in Procs : (rp[p].pc = "ready") ~> (rp[p].pc = "idle")
    /\ \A p \in Procs : (pt[p].pc \in {"sess", "prompt"}) ~> (pt[p].pc = "exit")
    /\ (git.pc = "created") ~> (git.pc = "marked")

\* the lock is held; a prompt hook has given up (fewer prompts than clock
\* readings, no hook running) and post-commit has ended without marking
C28_Witness ==
    /\ locked
    /\ rp[1].pc = "idle" /\ Cardinality(prompts) < clock
    /\ git.pc = "marked" /\ git.count = 0 /\ git.block # <<>>

\* C29: the result of a mark_committed call that failed on the store (no
\* store, or the store locked) is not a count, as a successful call
\* returns, and the result of an uncommitted_prompts call that found no
\* store is not the empty list a successful call returns.
C29_StorageErrorsReturned ==
    [][/\ (MarkStep /\ (schema = "none" \/ locked)) => git'.count \notin Nat
       /\ (PrepareStep /\ schema = "none") => git'.block # <<>>]_vars

\* C30: a prompt hook whose payload has no session_id, or no prompt text
\* (neither a non-blank prompt nor a text in the transcript), returns
\* without a change to sessions, prompts or links; only a payload with both
\* goes on to the store, so no stored prompt has an empty text or session.
C30_IncompletePayloadIgnored ==
    /\ [][\A p \in Procs :
            /\ (rp[p].pc = "idle" /\ rp'[p].pc = "returned") =>
                  /\ PromptText(rp'[p].data) = "" \/ rp'[p].data.session_id = ""
                  /\ StoreUnchanged /\ schema' = schema /\ nextId' = nextId
            /\ (rp[p].pc = "idle" /\ rp'[p].pc = "ready") =>
                  rp'[p].text # "" /\ rp'[p].session_id # ""]_vars
    /\ [](/\ \A q \in prompts : q.prompt_text # "" /\ q.session_id # ""
          /\ \A t \in sessions : t.session_id # "")

\* a payload of session S1 with a blank prompt and no transcript text was
\* ignored while the store held the session and a prompt of it, one of
\* them taken from the transcript
C30_Witness ==
    /\ \E p \in Procs :
          /\ rp[p].pc = "returned"
          /\ rp[p].data.session_id = "S1" /\ rp[p].data.prompt = "  "
          /\ rp[p].data.transcript = ""
    /\ \E t \in sessions : t.session_id = "S1" /\ t.last_active < clock
    /\ \E q \in prompts : q.prompt_text = "from the transcript"
    /\ \E q \in prompts : q.prompt_text = "fix the bug"

\* C31: no step removes a session, a prompt or a link; every prompt is after
\* a step the row it was, or (if it was uncommitted) that row with
\* committed = 1 and a commit hash, all other columns as before; and every
\* link is after a step the row it was.
C31_NothingDeletedOrRewritten ==
    [][/\ \A s \in sessions : \E t \in sessions' : t.session_id = s.session_id
       /\ \A p \in prompts : \E q \in prompts' :
             /\ q.prompt_id = p.prompt_id
             /\ \/ q = p
                \/ /\ p.committed = 0
                   /\ q.commit_hash \in CreatedHashes'
                   /\ q = [p EXCEPT !.committed = 1, !.commit_hash = q.commit_hash]
       /\ prompt_repos \subseteq prompt_repos'
       /\ \A l \in prompt_repos' : \A k \in prompt_repos :
             SameLink(l, k.prompt_id, k.repo_path) => l = k]_vars

\* the observer has found its link stored already, on a prompt of /x that
\* a commit in /x has marked since, and the session has recorded a later
\* prompt
C31_Witness ==
    \E o \in Procs : \E p, q \in prompts :
        /\ pt[o].pc = "exit" /\ pt[o].outcome = "present"
        /\ p.prompt_id = pt[o].prompt_id
        /\ p.repo_path = "/x" /\ p.committed = 1
        /\ q.session_id = p.session_id /\ q.timestamp > p.timestamp
        /\ q.committed = 0

\* an observer process ends in this step on one of its three early returns
PtReturnStep(p) == pt[p].pc = "idle" /\ pt'[p].pc = "exit" /\ pt'[p].outcome = "returned"

\* C32: a step in which an observer returns on its event (a tool outside
\* the tracked set, no session_id or no file_path) changes no table; only
\* such events return there; and a step that changes the links is the insert
\* of an observer that passed the three tests, adding one link.
C32_OnlyTrackedTools ==
    [][/\ \A p \in Procs : PtReturnStep(p) =>
             /\ store' = store
             /\ \/ pt'[p].data.tool_name \notin {"Write", "Edit", "MultiEdit", "NotebookEdit"}
                \/ pt'[p].data.session_id = ""
                \/ pt'[p].data.file_path = ""
       /\ prompt_repos' # prompt_repos =>
             \E p \in Procs :
                /\ pt[p].pc = "prompt" /\ pt'[p].pc = "exit" /\ pt'[p].outcome = "linked"
                /\ prompt_repos' = prompt_repos \cup
                      {[prompt_id |-> pt[p].prompt_id, repo_path |-> pt[p].file_repo,
                        branch_name |-> "main"]}]_vars

\* a Read of S1 on a file of /x has been ignored, with a prompt of S1
\* stored and table prompt_repos in place and empty, while the other
\* observer is on its way to link that prompt for a tracked write
C32_Witness ==
    \E p, o \in Procs :
        /\ pt[p].pc = "exit" /\ pt[p].outcome = "returned"
        /\ pt[p].data = [tool_name |-> "Read", session_id |-> "S1", file_path |-> "/x/b.py"]
        /\ schema = "full" /\ prompt_repos = {}
        /\ \E q \in prompts : q.session_id = "S1"
        /\ pt[o].pc = "prompt"

\* a call of the configure tool is answered in this step
ConfigureStep == tool.pc = "idle" /\ tool'.pc = "done" /\ tool'.op = "configure"

\* C33: a configure call with verbose_threshold 0 is answered with an error
\* and leaves the configuration as it was; every step that changes the
\* configuration is a configure call answered without error that stores a
\* threshold of at least 1; and in every state the threshold the formatter
\* loads is at least 1.
C33_ThresholdAtLeastOne ==
    /\ [](_load_threshold >= 1)
    /\ [][/\ handle_configure([verbose_threshold |-> 0]) => tool'.error /\ config' = config
          /\ (ConfigureStep /\ tool'.error) => config' = config
          /\ config' # config =>
                /\ ConfigureStep /\ ~tool'.error
                /\ config'.verbose_threshold >= 1]_vars

\* a threshold of 0 has been rejected after a threshold of 2 was stored,
\* and the block of three prompts being committed was rendered condensed
C33_Witness ==
    /\ tool.pc = "done" /\ tool.op = "configure" /\ tool.error
    /\ config = [verbose_threshold |-> 2]
    /\ git.pc = "prepared" /\ Len(git.block) = 3 /\ RenderedCondensed(git.msg)

\* the files lines among the lines `text`
FilesShown(text) == {text[i] : i \in LinesOfKind(text, "files")}
\* the first k names of the list
FirstNames(files, k) == SubSeq(files, 1, IF Len(files) <= k THEN Len(files) ELSE k)

\* C34: for n changed files, the block appended to a commit message (it has
\* prompts) has no files line when n = 0 and else one, with the first
\* min(n, 8) names and a suffix exactly when n > 8, announcing n - 8; the PR
\* body likewise with 20 in the place of 8.
C34_FileCap ==
    [][\A n \in 0..MaxFiles :
          /\ (cmd_prepare_commit_msg("/r", "message", FilesOf(n)) /\ git'.block # <<>>) =>
                FilesShown(git'.msg) =
                   IF n = 0 THEN {}
                   ELSE {[kind |-> "files", shown |-> FirstNames(FilesOf(n), 8),
                          more |-> IF n > 8 THEN n - 8 ELSE 0]}
          /\ PrCrossRepo(FilesOf(n)) =>
                FilesShown(tool'.text) =
                   IF n = 0 THEN {}
                   ELSE {[kind |-> "files", shown |-> FirstNames(FilesOf(n), 20),
                          more |-> IF n > 20 THEN n - 20 ELSE 0]}]_vars

\* with 22 files changed, the commit block shows 8 names and "+14 more"
\* and the PR body 20 names and 2 more
C34_Witness ==
    /\ git.pc = "prepared" /\ tool.pc = "done" /\ tool.op = "build_pr_body"
    /\ \E l \in FilesShown(git.msg) : Len(l.shown) = 8 /\ l.shown[8] = "f8" /\ l.more = 14
    /\ \E l \in FilesShown(tool.text) : Len(l.shown) = 20 /\ l.shown[20] = "f20" /\ l.more = 2

\* C35: the prompts a post-commit step marks are prompts of the block the
\* prepare-commit-msg step of the same commit read, and all of them when
\* the store is there and unlocked.
C35_MarkedAsPrepared ==
    [][MarkStep =>
          LET marked == Ids(prompts' \ prompts) IN
          /\ marked \subseteq SeqIds(git.block)
          /\ (schema # "none" /\ ~locked) => marked = SeqIds(git.block)]_vars

\* C36: the merged list of a rollup holds every prompt of its repository.
\* (No prompt is recorded meanwhile and the range of the rollup holds every
\* commit made before it started: a prompt committed before the start is
\* read by the first query, so a prompt missing from the merged list was
\* uncommitted when the rollup started.)
C36_RollupLosesNothing ==
    [][PrMergeStep =>
          \A p \in prompts : p.repo_path = tool.repo => p.prompt_id \in SeqIds(tool'.rows)]_vars

\* C37: in every state every session has started_at <= last_active, and no
\* step changes the started_at of a session.
C37_StartedBeforeLastActive ==
    /\ [](\A s \in sessions : s.started_at <= s.last_active)
    /\ [][\A s \in sessions : \A t \in sessions' :
             s.session_id = t.session_id => t.started_at = s.started_at]_vars

\* C38: in every state every prompt has the row of its session, every
\* session row has a prompt and every link has its prompt; a step that
\* changes a session row adds a prompt of that session, and a step that adds
\* a prompt leaves the row of its session with the prompt's timestamp as
\* last_active.
C38_ReferentialIntegrity ==
    /\ [](/\ \A p \in prompts : \E s \in sessions : s.session_id = p.session_id
          /\ \A s \in sessions : \E p \in prompts : p.session_id = s.session_id
          /\ \A l \in prompt_repos : \E p \in prompts : p.prompt_id = l.prompt_id)
    /\ [][/\ \A s \in sessions' : s \notin sessions =>
                \E q \in prompts' : q.prompt_id \notin Ids(prompts) /\ q.session_id = s.session_id
          /\ \A q \in prompts' : q.prompt_id \notin Ids(prompts) =>
                \E s \in sessions' : /\ s.session_id = q.session_id
                                     /\ s.last_active = q.timestamp
                                     /\ s \notin sessions]_vars

\* a store with two prompts of a session, one of them marked by a commit
\* and one linked to /r, is read by the observer while a prompt hook has
\* read its clock and has not written yet
C38_Witness ==
    /\ \E p, q \in prompts : /\ p.session_id = q.session_id /\ p.committed = 1
                              /\ \E l \in prompt_repos : l.prompt_id = q.prompt_id
    /\ rp[1].pc = "ready"
    /\ pt[1].pc = "sess"

\* C39: in every state every committed prompt has a commit hash that is not
\* the empty string, and a mark_committed call answered with an error
\* changes no prompt.
C39_CommittedHasHash ==
    /\ [](\A p \in prompts : p.committed = 1 => p.commit_hash # "")
    /\ [][(tool.pc = "idle" /\ tool'.pc = "done" /\ tool'.op = "mark_committed" /\ tool'.error)
            => prompts' = prompts]_vars

\* the prompts of other repositories that are linked to repo
CrossLinked(P, L, repo) ==
    {q \in P : q.repo_path # repo /\ \E l \in L : SameLink(l, q.prompt_id, repo)}

\* C40: a post-commit step in repository R leaves every prompt of another
\* repository as it was, those linked to R included, and leaves the links;
\* a step that changes a prompt is a post-commit step in the prompt's own
\* repository; and in every state cross_repo_prompts(R) returns exactly the
\* prompts of other repositories linked to R, committed or not.
C40_MarkLeavesOtherRepos ==
    /\ [](\A repo \in Repos : \A rows \in db_get_cross_repo_prompts(repo) :
             SeqIds(rows) = Ids(CrossLinked(prompts, prompt_repos, repo)))
    /\ [][/\ MarkStep =>
                /\ \A p \in prompts : p.repo_path # git.repo => p \in prompts'
                /\ prompt_repos' = prompt_repos
                /\ CrossLinked(prompts', prompt_repos', git.repo)
                      = CrossLinked(prompts, prompt_repos, git.repo)
          /\ \A p \in prompts : p \notin prompts' => MarkStep /\ git.repo = p.repo_path]_vars

\* a commit in /r has marked a prompt of /r and left uncommitted a prompt of
\* /x that is linked to /r, which a rollup of /r built since has returned
\* beside the committed prompt
C40_Witness ==
    /\ git.pc = "marked" /\ git.repo = "/r" /\ git.count > 0
    /\ tool.pc = "done" /\ tool.op = "build_pr_body"
    /\ \E p, q \in prompts :
          /\ p.repo_path = "/r" /\ p.commit_hash = git.hash
          /\ q \in CrossLinked(prompts, prompt_repos, "/r") /\ q.committed = 0
          /\ {p.prompt_id, q.prompt_id} \subseteq SeqIds(tool.rows)
          /\ \E i \in DOMAIN tool.rows : tool.rows[i].prompt_id = p.prompt_id
                                          /\ tool.rows[i].committed = 1

====
